---- MODULE Spec2Model ----
(***************************************************************************)
(* A model of the PRBills application: the billing-period resolver (two    *)
(* copies: getBillMonthYear in App, formatPeriod in BillHistory), the list *)
(* filter, the month dropdown, the report aggregation and the record       *)
(* collection handlers of App.                                             *)
(*                                                                         *)
(* A JavaScript string is a sequence of one-character strings, so          *)
(* "15/10/2023" is <<"1","5","/","1","0","/","2","0","2","3">>.  A time    *)
(* value (createdAt, Date.getTime()) is kept in ticks, TicksPerDay to a    *)
(* day, counted from 1970-01-01; all calendar fields are read in one time  *)
(* zone.  The runtime's default locale and its Date.parse fallback for     *)
(* non-ISO strings are the environment: they are chosen once, in Init.     *)
(***************************************************************************)
EXTENDS Integers, Sequences, FiniteSets, TLC

VARIABLES
    locale,        \* the runtime's default locale, read by toLocaleString('default', ..)
    engine,        \* how Date.parse treats strings that are not in the ISO format
    probe,         \* ResolverSpec: the record the resolver is applied to
    appKey,        \* ResolverSpec: what getBillMonthYear returned for probe
    rowKey,        \* ResolverSpec: what formatPeriod returned for probe
    bills,         \* App: the in-memory collection, newest first
    selectedBill,  \* App: the record shown in the BillCard, or Null
    isProcessing,  \* App: an upload is being analysed
    error,         \* App: the error message shown, or Null
    isDbMissing,   \* App: the load found no bills table
    isSchemaOutdated, \* App: a save failed for a missing column
    activeTab,     \* App: 'bills', 'upload' or 'report'
    searchTerm,    \* App: the text of the search box
    filterStatus,  \* App: 'all', 'paid' or 'unpaid'
    groupByBiller, \* App: the Group button
    filterMonth,   \* App: the value of the month dropdown
    store,         \* the rows of the bills table, newest first
    tableExists,   \* whether the bills table exists in the database
    now,           \* the clock, read by Date.now() and by the database
    nextId,        \* the next identifier the database or crypto.randomUUID() gives out
    load,          \* the loadBills() call started on mount
    upload,        \* the handleFileSelect() call in progress
    pending,       \* the handleToggleStatus / handleDelete calls awaiting the Store
    nextCall,      \* the number the next such call is known by
    selectedBiller, \* ReportDashboard: the biller dropdown
    selectedYear,  \* ReportDashboard: the year dropdown
    groupBy,       \* ReportDashboard: 'period' or 'biller'
    chartType      \* ReportDashboard: 'bar', 'line' or 'pie'

resolverVars == <<probe, appKey, rowKey>>

envVars == <<locale, engine, tableExists, now>>

appVars ==
    <<bills, selectedBill, isProcessing, error, isDbMissing, isSchemaOutdated,
      activeTab, searchTerm, filterStatus, groupByBiller, filterMonth>>

asyncVars == <<store, nextId, load, upload, pending, nextCall>>

reportVars == <<selectedBiller, selectedYear, groupBy, chartType>>

vars == <<resolverVars, envVars, appVars, asyncVars, reportVars>>

(***************************************************************************)
(* Characters and strings                                                  *)
(***************************************************************************)
Digits == <<"0", "1", "2", "3", "4", "5", "6", "7", "8", "9">>

UpperAlpha == <<"A", "B", "C", "D", "E", "F", "G", "H", "I", "J", "K", "L", "M",
                "N", "O", "P", "Q", "R", "S", "T", "U", "V", "W", "X", "Y", "Z">>

LowerAlpha == <<"a", "b", "c", "d", "e", "f", "g", "h", "i", "j", "k", "l", "m",
                "n", "o", "p", "q", "r", "s", "t", "u", "v", "w", "x", "y", "z">>

Range(f) == {f[i] : i \in DOMAIN f}

Min(S) == CHOOSE x \in S : \A y \in S : x <= y

Max(S) == CHOOSE x \in S : \A y \in S : x >= y

IsDigit(c) == c \in Range(Digits)

IsAlpha(c) == c \in Range(UpperAlpha) \cup Range(LowerAlpha)

DigitVal(c) == (CHOOSE i \in DOMAIN Digits : Digits[i] = c) - 1

\* String.prototype.toLowerCase / toUpperCase on one character
toLowerCase(c) ==
    IF c \in Range(UpperAlpha)
    THEN LowerAlpha[CHOOSE i \in DOMAIN UpperAlpha : UpperAlpha[i] = c]
    ELSE c

toUpperCase(c) ==
    IF c \in Range(LowerAlpha)
    THEN UpperAlpha[CHOOSE i \in DOMAIN LowerAlpha : LowerAlpha[i] = c]
    ELSE c

LowerStr(s) == [i \in 1..Len(s) |-> toLowerCase(s[i])]

\* s[i], or "" past either end of s
CharAt(s, i) == IF i \in 1..Len(s) THEN s[i] ELSE ""

\* String.prototype.substring(0, n)
Prefix(s, n) == SubSeq(s, 1, IF n < Len(s) THEN n ELSE Len(s))

\* the literal lit occurs in s at index i (1-based); ci = the regex flag 'i'
LitAt(s, i, lit, ci) ==
    /\ i >= 1
    /\ i + Len(lit) - 1 <= Len(s)
    /\ \A k \in 1..Len(lit) :
          IF ci THEN toLowerCase(s[i + k - 1]) = toLowerCase(lit[k])
                ELSE s[i + k - 1] = lit[k]

\* parseInt of a non-empty run of decimal digits
RECURSIVE parseInt(_)
parseInt(ds) ==
    IF Len(ds) = 0 THEN 0
    ELSE 10 * parseInt(SubSeq(ds, 1, Len(ds) - 1)) + DigitVal(ds[Len(ds)])

\* Number.prototype.toString / template interpolation of a non-negative integer
RECURSIVE IntToStr(_)
IntToStr(n) ==
    IF n < 10 THEN <<Digits[n + 1]>>
    ELSE IntToStr(n \div 10) \o <<Digits[(n % 10) + 1]>>

(***************************************************************************)
(* Date: the calendar of ECMAScript time values                            *)
(***************************************************************************)
\* ticks in a day: the unit in which createdAt and getTime() are kept
TicksPerDay == 2

\* MakeDay(year, month, date): the day number of a civil date (1970-01-01 = 0);
\* a date past the month's end runs on into the next month, as MakeDay does
DaysFromCivil(y, m, d) ==
    LET yy  == IF m <= 2 THEN y - 1 ELSE y
        era == yy \div 400
        yoe == yy - era * 400
        mp  == IF m > 2 THEN m - 3 ELSE m + 9
        doy == (153 * mp + 2) \div 5 + d - 1
        doe == yoe * 365 + yoe \div 4 - yoe \div 100 + doy
    IN  era * 146097 + doe - 719468

\* YearFromTime / MonthFromTime / DateFromTime of a day number
CivilFromDays(z) ==
    LET zz  == z + 719468
        era == zz \div 146097
        doe == zz - era * 146097
        yoe == (doe - doe \div 1460 + doe \div 36524 - doe \div 146096) \div 365
        doy == doe - (365 * yoe + yoe \div 4 - yoe \div 100)
        mp  == (5 * doy + 2) \div 153
        d   == doy - (153 * mp + 2) \div 5 + 1
        m   == IF mp < 10 THEN mp + 3 ELSE mp - 9
    IN  [y |-> IF m <= 2 THEN yoe + era * 400 + 1 ELSE yoe + era * 400,
         m |-> m, d |-> d]

\* Date.prototype.getFullYear of the time value t
getFullYear(t) == CivilFromDays(t \div TicksPerDay).y

\* Date.prototype.getMonth of the time value t, counted from 1
MonthOf(t) == CivilFromDays(t \div TicksPerDay).m

\* the month names Intl gives for { month: 'short' } in each modelled locale
LocaleShortMonths ==
    [en_US |-> << <<"J","a","n">>, <<"F","e","b">>, <<"M","a","r">>, <<"A","p","r">>,
                  <<"M","a","y">>, <<"J","u","n">>, <<"J","u","l">>, <<"A","u","g">>,
                  <<"S","e","p">>, <<"O","c","t">>, <<"N","o","v">>, <<"D","e","c">> >>,
     fr_FR |-> << <<"j","a","n","v",".">>, <<"f","é","v","r",".">>, <<"m","a","r","s">>,
                  <<"a","v","r",".">>, <<"m","a","i">>, <<"j","u","i","n">>,
                  <<"j","u","i","l",".">>, <<"a","o","û","t">>, <<"s","e","p","t",".">>,
                  <<"o","c","t",".">>, <<"n","o","v",".">>, <<"d","é","c",".">> >>]

Locales == DOMAIN LocaleShortMonths

\* toLocaleString with the year left out of the options
toLocaleStringMonthOnly(t) ==
    LocaleShortMonths[locale][MonthOf(t)]

\* Date.prototype.toLocaleString('default', { month: 'short', year: 'numeric' })
\* of a valid time value: the default locale's short month, a space, the year
toLocaleString(t) ==
    LocaleShortMonths[locale][MonthOf(t)] \o <<" ">> \o IntToStr(getFullYear(t))

(***************************************************************************)
(* Date.parse.  A string in the ISO format (YYYY, YYYY-MM, YYYY-MM-DD) is  *)
(* parsed as ECMA-262 says.  Any other string is left to the engine:       *)
(* "strict" answers NaN, "lenient" applies V8's legacy parser (numbers,    *)
(* words and punctuation; month names by their first three letters; words  *)
(* that are not month names ignored before the first number).  The model   *)
(* covers date-only strings: no ':' times, no zone names, no parentheses.  *)
(***************************************************************************)
Engines == {"lenient", "strict"}

NaN == [valid |-> FALSE, t |-> 0]

TimeValue(days) == [valid |-> TRUE, t |-> days * TicksPerDay]

IsMonth(n) == n >= 1 /\ n <= 12

IsDay(n) == n >= 1 /\ n <= 31

\* the end (exclusive) of the run of digits that starts at i
RECURSIVE DigitRunEnd(_, _)
DigitRunEnd(s, i) == IF IsDigit(CharAt(s, i)) THEN DigitRunEnd(s, i + 1) ELSE i

\* V8 reads as a word every run of characters at or above 'A'
IsWordChar(c) == IsAlpha(c) \/ c \in {"é", "û"}

RECURSIVE WordRunEnd(_, _)
WordRunEnd(s, i) == IF IsWordChar(CharAt(s, i)) THEN WordRunEnd(s, i + 1) ELSE i

\* the month (1..12) a word names by its first three letters, or 0
NamedMonth(w) ==
    LET hits == {m \in 1..12 : LitAt(w, 1, LocaleShortMonths["en_US"][m], TRUE)}
    IN  IF hits = {} THEN 0 ELSE CHOOSE m \in hits : TRUE

\* the whole string is in the ISO date format; its fields
IsoDate(s) ==
    LET fixed(i, n) == \A k \in 0..(n - 1) : IsDigit(CharAt(s, i + k))
        num(i, n)   == parseInt(SubSeq(s, i, i + n - 1))
    IN  IF Len(s) = 4 /\ fixed(1, 4)
        THEN [ok |-> TRUE, y |-> num(1, 4), m |-> 1, d |-> 1]
        ELSE IF Len(s) = 7 /\ fixed(1, 4) /\ s[5] = "-" /\ fixed(6, 2)
                /\ IsMonth(num(6, 2))
        THEN [ok |-> TRUE, y |-> num(1, 4), m |-> num(6, 2), d |-> 1]
        ELSE IF Len(s) = 10 /\ fixed(1, 4) /\ s[5] = "-" /\ fixed(6, 2)
                /\ IsMonth(num(6, 2)) /\ s[8] = "-" /\ fixed(9, 2)
                /\ IsDay(num(9, 2))
        THEN [ok |-> TRUE, y |-> num(1, 4), m |-> num(6, 2), d |-> num(9, 2)]
        ELSE [ok |-> FALSE, y |-> 0, m |-> 0, d |-> 0]

\* DayComposer::Write: the date of up to three numbers and a named month
DayComposerWrite(comp, named) ==
    LET c(k)  == IF k <= Len(comp) THEN comp[k] ELSE 1
        ymd   == IF named = 0
                 THEN IF ~IsDay(c(1))
                      THEN [y |-> c(1), m |-> c(2), d |-> c(3)]
                      ELSE [y |-> c(3), m |-> c(1), d |-> c(2)]
                 ELSE IF ~IsDay(c(1))
                      THEN [y |-> c(1), m |-> named, d |-> c(2)]
                      ELSE [y |-> c(2), m |-> named, d |-> c(1)]
        year  == IF ymd.y >= 0 /\ ymd.y <= 49 THEN ymd.y + 2000
                 ELSE IF ymd.y >= 50 /\ ymd.y <= 99 THEN ymd.y + 1900
                 ELSE ymd.y
    IN  IF Len(comp) < 1 \/ ~IsMonth(ymd.m) \/ ~IsDay(ymd.d) THEN NaN
        ELSE TimeValue(DaysFromCivil(year, ymd.m, ymd.d))

\* V8's legacy loop from index i on: comp = the numbers read, named = the
\* month named, hasNum = a number was read inside this loop
RECURSIVE LegacyParse(_, _, _, _, _)
LegacyParse(s, i, comp, named, hasNum) ==
    LET c == CharAt(s, i) IN
    IF c = "" THEN DayComposerWrite(comp, named)
    ELSE IF IsDigit(c) THEN
        LET j  == DigitRunEnd(s, i)
            j2 == IF CharAt(s, j) = "." THEN j + 1 ELSE j
            j3 == IF CharAt(s, j2) = "-" THEN j2 + 1 ELSE j2
        IN  IF Len(comp) >= 3 THEN NaN
            ELSE LegacyParse(s, j3, Append(comp, parseInt(SubSeq(s, i, j - 1))),
                             named, TRUE)
    ELSE IF IsWordChar(c) THEN
        LET j == WordRunEnd(s, i)
            m == NamedMonth(LowerStr(SubSeq(s, i, j - 1)))
        IN  IF m # 0
            THEN LegacyParse(s, IF CharAt(s, j) = "-" THEN j + 1 ELSE j,
                             comp, m, hasNum)
            ELSE IF hasNum \/ IsDigit(CharAt(s, j)) THEN NaN
            ELSE LegacyParse(s, j, comp, named, hasNum)
    ELSE IF c \in {"-", "+", ")"} /\ hasNum THEN NaN
    ELSE LegacyParse(s, i + 1, comp, named, hasNum)

\* ParseES5DateTime's hand-over: a leading four-digit year, and a two-digit
\* month and day after '-', are taken before the legacy loop starts
Es5Prefix(s) ==
    LET two(i, ok(_)) == DigitRunEnd(s, i) = i + 2 /\ ok(parseInt(SubSeq(s, i, i + 1)))
        y == parseInt(SubSeq(s, 1, 4))
    IN  IF DigitRunEnd(s, 1) # 5 THEN [i |-> 1, comp |-> <<>>]
        ELSE IF CharAt(s, 5) # "-" THEN [i |-> 5, comp |-> <<y>>]
        ELSE IF ~two(6, IsMonth) THEN [i |-> 6, comp |-> <<y>>]
        ELSE IF CharAt(s, 8) # "-"
             THEN [i |-> 8, comp |-> <<y, parseInt(SubSeq(s, 6, 7))>>]
        ELSE IF ~two(9, IsDay)
             THEN [i |-> 9, comp |-> <<y, parseInt(SubSeq(s, 6, 7))>>]
        ELSE [i |-> 11, comp |-> <<y, parseInt(SubSeq(s, 6, 7)),
                                   parseInt(SubSeq(s, 9, 10))>>]

\* new Date(string).getTime(): a time value, or NaN
DateParse(s) ==
    LET iso == IsoDate(s)
        pre == Es5Prefix(s)
    IN  IF iso.ok THEN TimeValue(DaysFromCivil(iso.y, iso.m, iso.d))
        ELSE IF engine = "strict" THEN NaN
        ELSE LegacyParse(s, pre.i, pre.comp, 0, FALSE)

(***************************************************************************)
(* String.prototype.match for the three patterns the resolver uses         *)
(***************************************************************************)
\* the length of (\d{1,2}) at i when one of seps follows it; 0 = no match
Group12(s, i, seps) ==
    IF IsDigit(CharAt(s, i)) /\ IsDigit(CharAt(s, i + 1)) /\ CharAt(s, i + 2) \in seps
    THEN 2
    ELSE IF IsDigit(CharAt(s, i)) /\ CharAt(s, i + 1) \in seps THEN 1
    ELSE 0

\* /(\d{1,2})[seps](\d{1,2})[seps](\d{4})/ matches s at index i
NumericAt(s, i, seps) ==
    LET g1 == Group12(s, i, seps)
        j  == i + g1 + 1
        g2 == Group12(s, j, seps)
        k  == j + g2 + 1
    IN  g1 > 0 /\ g2 > 0 /\ \A d \in 0..3 : IsDigit(CharAt(s, k + d))

\* MatchNumeric with the first group handed out as the second (a month/day
\* mix-up)
MatchNumericMonthFirst(s, seps) ==
    LET hits == {i \in 1..Len(s) : NumericAt(s, i, seps)} IN
    IF hits = {} THEN [found |-> FALSE, g2 |-> <<>>, g3 |-> <<>>]
    ELSE LET i  == Min(hits)
             g1 == Group12(s, i, seps)
             j  == i + g1 + 1
             g2 == Group12(s, j, seps)
             k  == j + g2 + 1
         IN  [found |-> TRUE, g2 |-> SubSeq(s, i, i + g1 - 1), g3 |-> SubSeq(s, k, k + 3)]

\* s.match(/(\d{1,2})[seps](\d{1,2})[seps](\d{4})/): the leftmost match's
\* groups 2 and 3, or null (found = FALSE)
MatchNumeric(s, seps) ==
    LET hits == {i \in 1..Len(s) : NumericAt(s, i, seps)} IN
    IF hits = {} THEN [found |-> FALSE, g2 |-> <<>>, g3 |-> <<>>]
    ELSE LET i  == Min(hits)
             g1 == Group12(s, i, seps)
             j  == i + g1 + 1
             g2 == Group12(s, j, seps)
             k  == j + g2 + 1
         IN  [found |-> TRUE, g2 |-> SubSeq(s, j, j + g2 - 1), g3 |-> SubSeq(s, k, k + 3)]

\* s.match(/20[c]\d/) with c in the class third: the leftmost match, or null
\* the match of the year taken at the rightmost place instead of the leftmost
MatchYearRightmost(s, third) ==
    LET at(i) == /\ CharAt(s, i) = "2" /\ CharAt(s, i + 1) = "0"
                 /\ CharAt(s, i + 2) \in third /\ IsDigit(CharAt(s, i + 3))
        hits  == {i \in 1..Len(s) : at(i)}
    IN  IF hits = {} THEN [found |-> FALSE, m0 |-> <<>>]
        ELSE [found |-> TRUE, m0 |-> SubSeq(s, Max(hits), Max(hits) + 3)]

MatchYear(s, third) ==
    LET at(i) == /\ CharAt(s, i) = "2" /\ CharAt(s, i + 1) = "0"
                 /\ CharAt(s, i + 2) \in third /\ IsDigit(CharAt(s, i + 3))
        hits  == {i \in 1..Len(s) : at(i)}
    IN  IF hits = {} THEN [found |-> FALSE, m0 |-> <<>>]
        ELSE [found |-> TRUE, m0 |-> SubSeq(s, Min(hits), Min(hits) + 3)]

\* s.match(new RegExp('(a1|a2|...)', 'i')): at the leftmost index where an
\* alternative matches, the first alternative in order that does; or null
MatchAlternation(s, alts) ==
    LET hits == {i \in 1..Len(s) : \E a \in DOMAIN alts : LitAt(s, i, alts[a], TRUE)} IN
    IF hits = {} THEN [found |-> FALSE, m0 |-> <<>>]
    ELSE LET i == Min(hits)
             a == Min({x \in DOMAIN alts : LitAt(s, i, alts[x], TRUE)})
         IN  [found |-> TRUE, m0 |-> SubSeq(s, i, i + Len(alts[a]) - 1)]

\* bill.dueDate || '': undefined, null and '' all give ''
Undefined == <<"undefined">>

OrEmpty(x) == IF x = Undefined THEN <<>> ELSE x

\* TitleCase without the toLowerCase() of the rest
TitleCaseFirstOnly(w) ==
    [i \in 1..Len(w) |-> IF i = 1 THEN toUpperCase(w[i]) ELSE w[i]]

\* shortMonth.charAt(0).toUpperCase() + shortMonth.slice(1).toLowerCase()
TitleCase(w) ==
    [i \in 1..Len(w) |-> IF i = 1 THEN toUpperCase(w[i]) ELSE toLowerCase(w[i])]

(***************************************************************************)
(* The period resolver of App: getBillMonthYear                            *)
(***************************************************************************)
months ==
    <<<<"J","a","n">>, <<"F","e","b">>, <<"M","a","r">>, <<"A","p","r">>,
      <<"M","a","y">>, <<"J","u","n">>, <<"J","u","l">>, <<"A","u","g">>,
      <<"S","e","p">>, <<"O","c","t">>, <<"N","o","v">>, <<"D","e","c">>>>

FullMonthNames ==
    <<<<"J","a","n","u","a","r","y">>, <<"F","e","b","r","u","a","r","y">>,
      <<"M","a","r","c","h">>, <<"A","p","r","i","l">>, <<"M","a","y">>,
      <<"J","u","n","e">>, <<"J","u","l","y">>, <<"A","u","g","u","s","t">>,
      <<"S","e","p","t","e","m","b","e","r">>,
      <<"O","c","t","o","b","e","r">>, <<"N","o","v","e","m","b","e","r">>,
      <<"D","e","c","e","m","b","e","r">>>>

\* the resolver with the text search tried before the numeric date
getBillMonthYearTextFirst(bill) ==
    LET text         == bill.dateOfPeriod \o <<" ">> \o OrEmpty(bill.dueDate)
        numericMatch == MatchNumeric(bill.dateOfPeriod, {"/", "-"})
        p2           == parseInt(numericMatch.g2)
        p3           == parseInt(numericMatch.g3)
        yearMatch    == MatchYear(text, {"2", "3"})
        year         == IF yearMatch.found THEN yearMatch.m0
                        ELSE IntToStr(getFullYear(bill.createdAt))
        monthMatch   == MatchAlternation(text, months \o FullMonthNames)
        shortMonth   == Prefix(monthMatch.m0, 3)
        normalized   == TitleCase(shortMonth)
        dateAttempt  == DateParse(bill.dateOfPeriod)
    IN  IF monthMatch.found /\ normalized \in Range(months)
        THEN normalized \o <<" ">> \o year
        ELSE IF numericMatch.found /\ p2 >= 1 /\ p2 <= 12
        THEN months[p2] \o <<" ">> \o IntToStr(p3)
        ELSE IF dateAttempt.valid /\ getFullYear(dateAttempt.t) > 2000
        THEN toLocaleString(dateAttempt.t)
        ELSE toLocaleString(bill.createdAt)

getBillMonthYear(bill) ==
    LET text         == bill.dateOfPeriod \o <<" ">> \o OrEmpty(bill.dueDate)
        numericMatch == MatchNumeric(bill.dateOfPeriod, {"/", "-"})
        p2           == parseInt(numericMatch.g2)
        p3           == parseInt(numericMatch.g3)
        yearMatch    == MatchYear(text, {"2", "3"})
        year         == IF yearMatch.found THEN yearMatch.m0
                        ELSE IntToStr(getFullYear(bill.createdAt))
        monthMatch   == MatchAlternation(text, months \o FullMonthNames)
        shortMonth   == Prefix(monthMatch.m0, 3)
        normalized   == TitleCase(shortMonth)
        dateAttempt  == DateParse(bill.dateOfPeriod)
    IN  IF numericMatch.found /\ p2 >= 1 /\ p2 <= 12
        THEN months[p2] \o <<" ">> \o IntToStr(p3)
        ELSE IF monthMatch.found /\ normalized \in Range(months)
        THEN normalized \o <<" ">> \o year
        ELSE IF dateAttempt.valid /\ getFullYear(dateAttempt.t) > 2000
        THEN toLocaleString(dateAttempt.t)
        ELSE toLocaleString(bill.createdAt)

(***************************************************************************)
(* The period resolver of BillHistory: formatPeriod                        *)
(***************************************************************************)
\* the months table of formatPeriod drifted from App's: "Sept" for September
formatPeriodMonthsDrifted ==
    [months EXCEPT ![9] = <<"S","e","p","t">>]

formatPeriodMonths ==
    <<<<"J","a","n">>, <<"F","e","b">>, <<"M","a","r">>, <<"A","p","r">>,
      <<"M","a","y">>, <<"J","u","n">>, <<"J","u","l">>, <<"A","u","g">>,
      <<"S","e","p">>, <<"O","c","t">>, <<"N","o","v">>, <<"D","e","c">>>>

formatPeriodFullNames ==
    <<<<"J","a","n","u","a","r","y">>, <<"F","e","b","r","u","a","r","y">>,
      <<"M","a","r","c","h">>, <<"A","p","r","i","l">>, <<"M","a","y">>,
      <<"J","u","n","e">>, <<"J","u","l","y">>, <<"A","u","g","u","s","t">>,
      <<"S","e","p","t","e","m","b","e","r">>,
      <<"O","c","t","o","b","e","r">>, <<"N","o","v","e","m","b","e","r">>,
      <<"D","e","c","e","m","b","e","r">>>>

formatPeriod(bill) ==
    LET text         == bill.dateOfPeriod \o <<" ">> \o OrEmpty(bill.dueDate)
        numericMatch == MatchNumeric(bill.dateOfPeriod, {"/", "-"})
        p2           == parseInt(numericMatch.g2)
        p3           == parseInt(numericMatch.g3)
        yearMatch    == MatchYear(text, {"2", "3"})
        year         == IF yearMatch.found THEN yearMatch.m0
                        ELSE IntToStr(getFullYear(bill.createdAt))
        monthMatch   == MatchAlternation(text, formatPeriodMonths \o formatPeriodFullNames)
        shortMonth   == Prefix(monthMatch.m0, 3)
        normalized   == TitleCase(shortMonth)
        dateAttempt  == DateParse(bill.dateOfPeriod)
    IN  IF numericMatch.found /\ p2 >= 1 /\ p2 <= 12
        THEN formatPeriodMonths[p2] \o <<" ">> \o IntToStr(p3)
        ELSE IF monthMatch.found /\ normalized \in Range(formatPeriodMonths)
        THEN normalized \o <<" ">> \o year
        ELSE IF dateAttempt.valid /\ getFullYear(dateAttempt.t) > 2000
        THEN toLocaleString(dateAttempt.t)
        ELSE toLocaleString(bill.createdAt)

(***************************************************************************)
(* The records the resolver is applied to                                  *)
(***************************************************************************)
\* the most parts a probed dateOfPeriod is made of
MaxParts == 2

\* the parts of a probed dateOfPeriod: numeric dates with '/', '-' and '.',
\* one with the month second-to-none (10/15), one with a year that has a
\* leading zero, month names in full, in capitals and inside another word
\* ("Summary" holds "mar"), years inside and outside 2020..2039, a word that
\* says nothing, and an ISO year-month
Parts ==
    <<<<"1","5","/","1","0","/","2","0","2","3">>,
      <<"1","-","2","-","2","0","2","4">>,
      <<"1","5",".","1","0",".","2","0","2","3">>,
      <<"1","0","/","1","5","/","2","0","2","3">>,
      <<"1","5","/","1","0","/","0","9","9","9">>,
      <<"O","c","t","o","b","e","r">>,
      <<"S","E","P","T">>,
      <<"2","0","3","1">>,
      <<"2","0","1","9">>,
      <<"S","u","m","m","a","r","y">>,
      <<"B","i","l","l">>,
      <<"2","0","2","3","-","1","0">>>>

\* the phrases of exactly n parts, joined by single spaces
RECURSIVE PhrasesOf(_)
PhrasesOf(n) ==
    IF n = 1 THEN Range(Parts)
    ELSE {a \o <<" ">> \o b : a \in PhrasesOf(n - 1), b \in Range(Parts)}

\* "Billing for October 2023", the spec's example of a textual period
BillingForOctober2023 ==
    <<"B","i","l","l","i","n","g"," ","f","o","r"," ","O","c","t","o","b","e","r"," ","2","0","2","3">>

PeriodInputs ==
    {<<>>, BillingForOctober2023} \cup UNION {PhrasesOf(n) : n \in 1..MaxParts}

\* the due dates: absent, empty, and "Nov 15, 2023"
DueInputs ==
    {Undefined, <<>>, <<"N","o","v"," ","1","5",","," ","2","0","2","3">>}

\* the upload times: on 2024-03-05, and at the start of 2022-12-31
CreatedInputs ==
    {DaysFromCivil(2024, 3, 5) * TicksPerDay + 1, DaysFromCivil(2022, 12, 31) * TicksPerDay}

ProbeBills ==
    [dateOfPeriod : PeriodInputs, dueDate : DueInputs, createdAt : CreatedInputs]

\* the value of appKey and rowKey before the resolver was called
NotCalled == <<>>

(***************************************************************************)
(* The state of App and of ReportDashboard on mount                        *)
(***************************************************************************)
\* null, where a record can stand (selectedBill)
Null == [null |-> TRUE]

\* no error message: null, or the empty string, which renders the same
NoError == ""

\* 'all', the pass-through value of the dropdowns
All == <<"a","l","l">>

\* an asynchronous call that is not in progress
Idle == [phase |-> "idle"]

\* the useState() initial values of App
AppMounted ==
    /\ bills = <<>>
    /\ selectedBill = Null
    /\ isProcessing = FALSE
    /\ error = NoError
    /\ isDbMissing = FALSE
    /\ isSchemaOutdated = FALSE
    /\ activeTab = "bills"
    /\ searchTerm = <<>>
    /\ filterStatus = "all"
    /\ groupByBiller = FALSE
    /\ filterMonth = All

\* the useState() initial values of ReportDashboard
ReportMounted ==
    /\ chartType = "bar"
    /\ selectedBiller = All
    /\ selectedYear = All
    /\ groupBy = "period"

(***************************************************************************)
(* ResolverSpec: each copy of the resolver applied to one record           *)
(***************************************************************************)
ResolverInit ==
    /\ locale \in Locales
    /\ engine \in Engines
    /\ probe \in ProbeBills
    /\ appKey = NotCalled
    /\ rowKey = NotCalled
    /\ AppMounted
    /\ ReportMounted
    /\ tableExists = TRUE
    /\ now = 0
    /\ store = <<>>
    /\ nextId = 1
    /\ load = Idle
    /\ upload = Idle
    /\ pending = {}
    /\ nextCall = 1

\* App renders the month filter: getBillMonthYear(probe)
CallGetBillMonthYear ==
    /\ appKey = NotCalled
    /\ appKey' = getBillMonthYear(probe)
    /\ UNCHANGED <<probe, rowKey, envVars, appVars, asyncVars, reportVars>>

\* BillHistory renders the row: formatPeriod(probe)
CallFormatPeriod ==
    /\ rowKey = NotCalled
    /\ rowKey' = formatPeriod(probe)
    /\ UNCHANGED <<probe, appKey, envVars, appVars, asyncVars, reportVars>>

ResolverNext == CallGetBillMonthYear \/ CallFormatPeriod

ResolverSpec == ResolverInit /\ [][ResolverNext]_vars

(***************************************************************************)
(* Claims about the resolver, checked under ResolverSpec                   *)
(***************************************************************************)
\* the keys the two copies of the resolver have returned for probe
ResolvedKeys == {k \in {appKey, rowKey} : k # NotCalled}

\* the combined text the claims speak of: dateOfPeriod followed by dueDate
CombinedText == probe.dateOfPeriod \o <<" ">> \o OrEmpty(probe.dueDate)

\* s holds at index i a day/month/year date: dl digits, a separator of seps,
\* ml digits, a separator of seps, four digits
DmyAt(s, i, dl, ml, seps) ==
    /\ \A k \in 0..(dl - 1) : IsDigit(CharAt(s, i + k))
    /\ CharAt(s, i + dl) \in seps
    /\ \A k \in 1..ml : IsDigit(CharAt(s, i + dl + k))
    /\ CharAt(s, i + dl + ml + 1) \in seps
    /\ \A k \in 2..5 : IsDigit(CharAt(s, i + dl + ml + k))

DmyMonth(s, i, dl, ml) == parseInt(SubSeq(s, i + dl + 1, i + dl + ml))

DmyYear(s, i, dl, ml) == SubSeq(s, i + dl + ml + 2, i + dl + ml + 5)

\* the day/month/year dates s holds, as <<index, day digits, month digits>>
DmyDates(s, seps) ==
    {d \in (1..Len(s)) \X {1, 2} \X {1, 2} : DmyAt(s, d[1], d[2], d[3], seps)}

\* the leftmost date of DmyDates(s, {"/", "-"}) has its month in 1..12
LeftmostDmyUsable(s) ==
    LET ds == DmyDates(s, {"/", "-"}) IN
    /\ ds # {}
    /\ \A d \in ds : (\A e \in ds : d[1] <= e[1]) => IsMonth(DmyMonth(s, d[1], d[2], d[3]))

\* the months (1..12) named in s, each with the index of the name, and the
\* 4-digit years 2020..2039 in s, each with its index
MonthNamesIn(s) ==
    {o \in (1..Len(s)) \X (1..12) : LitAt(s, o[1], months[o[2]], TRUE)}

YearsIn(s) ==
    {i \in 1..Len(s) : /\ CharAt(s, i) = "2" /\ CharAt(s, i + 1) = "0"
                       /\ CharAt(s, i + 2) \in {"2", "3"} /\ IsDigit(CharAt(s, i + 3))}

\* the short month and the year of a time value, in English
EnglishMonthYear(t) ==
    months[CivilFromDays(t \div TicksPerDay).m] \o <<" ">>
        \o IntToStr(CivilFromDays(t \div TicksPerDay).y)

\* the short month and the year of a time value, as the default locale writes them
LocalMonthYear(t) ==
    LocaleShortMonths[locale][CivilFromDays(t \div TicksPerDay).m] \o <<" ">>
        \o IntToStr(CivilFromDays(t \div TicksPerDay).y)

\* C1 as stated: for every D/M/YYYY date (month in 1..12) that dateOfPeriod
\* contains, the resolver returns "<months[M-1]> <YYYY>"
C1_AsStated ==
    \A k \in ResolvedKeys :
        \A d \in DmyDates(probe.dateOfPeriod, {"/"}) :
            IsMonth(DmyMonth(probe.dateOfPeriod, d[1], d[2], d[3]))
            => k = months[DmyMonth(probe.dateOfPeriod, d[1], d[2], d[3])] \o <<" ">>
                      \o DmyYear(probe.dateOfPeriod, d[1], d[2], d[3])

\* C1, amended: when the leftmost D/M/YYYY date in dateOfPeriod (separators
\* '/' or '-') has its month M in 1..12, the resolver returns months[M-1], a
\* space and the year as a number (leading zeros dropped), whatever dueDate
\* and createdAt are
C1_LeftmostNumericDate ==
    \A k \in ResolvedKeys :
        LET s  == probe.dateOfPeriod
            ds == DmyDates(s, {"/", "-"})
        IN  \A d \in ds :
                /\ \A e \in ds : d[1] <= e[1]
                /\ IsMonth(DmyMonth(s, d[1], d[2], d[3]))
                => k = months[DmyMonth(s, d[1], d[2], d[3])] \o <<" ">>
                          \o IntToStr(parseInt(DmyYear(s, d[1], d[2], d[3])))

\* "15/10/2023" was resolved to "Oct 2023"
C1_Witness ==
    /\ probe.dateOfPeriod = Parts[1]
    /\ appKey = <<"O","c","t"," ","2","0","2","3">>
    /\ rowKey = <<"O","c","t"," ","2","0","2","3">>

\* C2 as stated: for every month name and every year 2020..2039 the combined
\* text contains, the resolver returns that month's abbreviation and that year
C2_AsStated ==
    \A k \in ResolvedKeys :
        \A o \in MonthNamesIn(CombinedText) : \A y \in YearsIn(CombinedText) :
            k = months[o[2]] \o <<" ">> \o SubSeq(CombinedText, y, y + 3)

\* C2, amended: when layer 1 does not apply (the leftmost numeric date of
\* dateOfPeriod, if any, has no month in 1..12) and the combined text holds a
\* month name and a year 2020..2039, the resolver returns the abbreviation of
\* the leftmost month name and the leftmost such year
C2_LeftmostMonthAndYear ==
    \A k \in ResolvedKeys :
        \A o \in MonthNamesIn(CombinedText) : \A y \in YearsIn(CombinedText) :
            /\ ~LeftmostDmyUsable(probe.dateOfPeriod)
            /\ \A o2 \in MonthNamesIn(CombinedText) : o[1] <= o2[1]
            /\ \A y2 \in YearsIn(CombinedText) : y <= y2
            => k = months[o[2]] \o <<" ">> \o SubSeq(CombinedText, y, y + 3)

\* "Billing for October 2023" with an empty dueDate was resolved to "Oct 2023"
C2_Witness ==
    /\ probe.dateOfPeriod = BillingForOctober2023
    /\ probe.dueDate = <<>>
    /\ appKey = <<"O","c","t"," ","2","0","2","3">>
    /\ rowKey = <<"O","c","t"," ","2","0","2","3">>

\* neither dateOfPeriod nor dueDate holds a digit or a month name
NoDateSignal ==
    /\ \A i \in 1..Len(CombinedText) : ~IsDigit(CombinedText[i])
    /\ MonthNamesIn(CombinedText) = {}

\* C3: a record with no recognizable date information resolves to the short
\* month ("Mar") and year of createdAt
C3_FallsBackToCreatedAt ==
    \A k \in ResolvedKeys : NoDateSignal => k = EnglishMonthYear(probe.createdAt)

\* layers 1 to 3 produce nothing for probe
NoLayerApplies ==
    /\ ~LeftmostDmyUsable(probe.dateOfPeriod)
    /\ MonthNamesIn(CombinedText) = {}
    /\ LET d == DateParse(probe.dateOfPeriod)
       IN  ~d.valid \/ CivilFromDays(d.t \div TicksPerDay).y <= 2000

\* the characters of the strings of the model
JsChars ==
    Range(Digits) \cup Range(UpperAlpha) \cup Range(LowerAlpha)
        \cup {" ", "/", "-", ".", ",", "é", "û"}

\* C4: the resolver returns a string for every record, and the layer-4 value
\* (createdAt's short month and year) when layers 1 to 3 produce nothing
C4_TotalEndsAtLayer4 ==
    \A k \in ResolvedKeys :
        /\ Len(k) > 0
        /\ \A i \in 1..Len(k) : k[i] \in JsChars
        /\ NoLayerApplies => k = LocalMonthYear(probe.createdAt)

\* the empty dateOfPeriod with no dueDate went through to layer 4
C4_Witness ==
    /\ probe.dateOfPeriod = <<>>
    /\ probe.dueDate = Undefined
    /\ NoLayerApplies
    /\ appKey = LocalMonthYear(probe.createdAt)
    /\ rowKey = appKey

\* k is "<Mon> <Year>": one of Jan..Dec, a space, four digits
IsCanonicalKey(k) ==
    /\ Len(k) = 8
    /\ SubSeq(k, 1, 3) \in Range(months)
    /\ k[4] = " "
    /\ \A i \in 5..8 : IsDigit(k[i])

\* C5: every value the resolver returns has the form "<Mon> <Year>", <Mon> one
\* of Jan..Dec and <Year> four digits
C5_AlwaysCanonical == \A k \in ResolvedKeys : IsCanonicalKey(k)

\* C7: the key of the list filter (getBillMonthYear) equals the key shown in
\* the list row (formatPeriod), for every record
C7_CopiesAgree == appKey # NotCalled /\ rowKey # NotCalled => appKey = rowKey

\* both copies resolved "SEPT 2031", through the months table
C7_Witness ==
    /\ probe.dateOfPeriod = Parts[7] \o <<" ">> \o Parts[8]
    /\ appKey = <<"S","e","p"," ","2","0","3","1">>
    /\ rowKey = <<"S","e","p"," ","2","0","3","1">>

(***************************************************************************)
(* Array.prototype.sort with a comparator, as V8 runs it on an array of    *)
(* fewer than 64 elements: one natural run is found (and reversed when it  *)
(* descends), the rest is put in place by binary insertion.  cmp maps a    *)
(* pair <<a, b>> to the number the comparator returns for (a, b); a NaN    *)
(* result counts as 0.                                                     *)
(***************************************************************************)
RECURSIVE RunLength(_, _, _, _)
RunLength(a, cmp, isDescending, idx) ==
    IF idx > Len(a) THEN idx - 1
    ELSE LET order == cmp[<<a[idx], a[idx - 1]>>]
         IN  IF (isDescending /\ order >= 0) \/ (~isDescending /\ order < 0)
             THEN idx - 1
             ELSE RunLength(a, cmp, isDescending, idx + 1)

RECURSIVE InsertionPoint(_, _, _, _, _)
InsertionPoint(a, cmp, pivot, left, right) ==
    IF left >= right THEN left
    ELSE LET mid == left + ((right - left) \div 2)
         IN  IF cmp[<<pivot, a[mid]>>] < 0
             THEN InsertionPoint(a, cmp, pivot, left, mid)
             ELSE InsertionPoint(a, cmp, pivot, mid + 1, right)

RECURSIVE BinaryInsertionSort(_, _, _)
BinaryInsertionSort(a, cmp, start) ==
    IF start > Len(a) THEN a
    ELSE LET pivot == a[start]
             left  == InsertionPoint(a, cmp, pivot, 1, start)
             moved == [i \in 1..Len(a) |->
                          IF i < left THEN a[i]
                          ELSE IF i = left THEN pivot
                          ELSE IF i <= start THEN a[i - 1]
                          ELSE a[i]]
         IN  BinaryInsertionSort(moved, cmp, start + 1)

ArraySort(a, cmp) ==
    IF Len(a) < 2 THEN a
    ELSE LET isDescending == cmp[<<a[2], a[1]>>] < 0
             run          == RunLength(a, cmp, isDescending, 3)
             made         == [i \in 1..Len(a) |->
                                 IF isDescending /\ i <= run THEN a[run + 1 - i] ELSE a[i]]
         IN  BinaryInsertionSort(made, cmp, run + 1)

\* Array.from(new Set(a)): the distinct elements of a, in order of first occurrence
RECURSIVE ArrayFromSet(_)
ArrayFromSet(a) ==
    IF a = <<>> THEN <<>>
    ELSE LET front == ArrayFromSet(SubSeq(a, 1, Len(a) - 1))
         IN  IF a[Len(a)] \in Range(front) THEN front ELSE Append(front, a[Len(a)])

\* String.prototype.includes
Includes(s, sub) ==
    \E i \in 1..(Len(s) + 1) :
        /\ i + Len(sub) - 1 <= Len(s)
        /\ SubSeq(s, i, i + Len(sub) - 1) = sub

(***************************************************************************)
(* App: the values derived from the collection and the filters             *)
(***************************************************************************)
\* the comparator of availableMonths: dateB.getTime() - dateA.getTime()
MonthComparator(keys) ==
    [p \in keys \X keys |->
        LET dateA == DateParse(p[1])
            dateB == DateParse(p[2])
        IN  IF dateA.valid /\ dateB.valid THEN dateB.t - dateA.t ELSE 0]

availableMonths ==
    LET mapped   == [i \in 1..Len(bills) |-> getBillMonthYear(bills[i])]
        monthSet == ArrayFromSet(mapped)
    IN  ArraySort(monthSet, MonthComparator(Range(monthSet)))

\* the search without the two toLowerCase() calls on the record's side
matchesSearchCaseSensitive(bill) ==
    \/ Includes(bill.billName, LowerStr(searchTerm))
    \/ /\ bill.summary # Undefined
       /\ bill.summary # <<>>
       /\ Includes(bill.summary, LowerStr(searchTerm))

matchesSearch(bill) ==
    \/ Includes(LowerStr(bill.billName), LowerStr(searchTerm))
    \/ /\ bill.summary # Undefined
       /\ bill.summary # <<>>
       /\ Includes(LowerStr(bill.summary), LowerStr(searchTerm))

matchesStatus(bill) == filterStatus = "all" \/ bill.status = filterStatus

matchesMonthNameOnly(bill) ==
    filterMonth = All \/ Prefix(getBillMonthYear(bill), 3) = Prefix(filterMonth, 3)

matchesMonth(bill) == filterMonth = All \/ getBillMonthYear(bill) = filterMonth

\* the three filters with the status filter left out of the conjunction
InFilteredBillsStatusIgnored(bill) == matchesSearch(bill) /\ matchesMonth(bill)

InFilteredBills(bill) == matchesSearch(bill) /\ matchesStatus(bill) /\ matchesMonth(bill)

filteredBills == SelectSeq(bills, InFilteredBills)

\* the list of bills with its search box, dropdown and buttons is on screen
ListShown == ~isProcessing /\ selectedBill = Null /\ activeTab = "bills"

\* the BillCard of the selected bill is on screen
CardShown == ~isProcessing /\ selectedBill # Null

(***************************************************************************)
(* The Extractor's answers and the rows of the Store                       *)
(***************************************************************************)
\* the most identifiers given out (by the database and by crypto.randomUUID)
MaxRecords == 2

\* the most toggles and deletes that are sent to the Store
MaxCalls == 2

\* what extractBillData returns: a period in words,
OctoberBill ==
    [billName |-> <<"D","i","a","l","o","g">>,
     dateOfPeriod |-> <<"O","c","t","o","b","e","r"," ","2","0","2","3">>,
     dueDate |-> <<"N","o","v"," ","1","5",","," ","2","0","2","3">>,
     amount |-> 10, currency |-> "LKR",
     summary |-> <<"M","o","b","i","l","e">>]

\* the same period as a numeric date,
NumericBill ==
    [billName |-> <<"S","L","T">>,
     dateOfPeriod |-> <<"1","5","/","1","0","/","2","0","2","3">>,
     dueDate |-> Undefined,
     amount |-> 5, currency |-> "LKR",
     summary |-> Undefined]

\* and a period that names the month only, from a biller without a name
MonthOnlyBill ==
    [billName |-> <<>>,
     dateOfPeriod |-> <<"O","c","t","o","b","e","r">>,
     dueDate |-> <<>>,
     amount |-> 3, currency |-> "USD",
     summary |-> <<>>]

\* an earlier period of the first biller
MarchBill ==
    [billName |-> <<"D","i","a","l","o","g">>,
     dateOfPeriod |-> <<"M","a","r","c","h"," ","2","0","2","3">>,
     dueDate |-> Undefined,
     amount |-> 7, currency |-> "LKR",
     summary |-> <<"M","o","b","i","l","e">>]

\* the answers of extractBillData in AppSpec
Extractions == {OctoberBill, MonthOnlyBill}

\* the row saveBill inserts: status 'unpaid', id and created_at from the database
InsertedRow(data, id, createdAt) ==
    [id |-> id, bill_name |-> data.billName, date_of_period |-> data.dateOfPeriod,
     due_date |-> data.dueDate, amount |-> data.amount, currency |-> data.currency,
     summary |-> data.summary, status |-> "unpaid", created_at |-> createdAt]

mapRowToRecord(row) ==
    [id |-> row.id, billName |-> row.bill_name, dateOfPeriod |-> row.date_of_period,
     dueDate |-> row.due_date, amount |-> row.amount, currency |-> row.currency,
     summary |-> row.summary, status |-> row.status, createdAt |-> row.created_at]

\* the record handleFileSelect makes when the save fails
LocalRecord(data, id, createdAt) ==
    [id |-> id, billName |-> data.billName, dateOfPeriod |-> data.dateOfPeriod,
     dueDate |-> data.dueDate, amount |-> data.amount, currency |-> data.currency,
     summary |-> data.summary, status |-> "unpaid", createdAt |-> createdAt]

\* the tables the application may find on mount: empty, or one paid row of
\* the day before
InitialStores ==
    { <<>>,
      <<[InsertedRow(OctoberBill, 1, now - TicksPerDay)
            EXCEPT !.status = "paid"]>> }

\* the value of probe when the resolver is not probed
NoProbe == [dateOfPeriod |-> <<>>, dueDate |-> Undefined, createdAt |-> 0]

(***************************************************************************)
(* AppSpec: the collection and its handlers, from the mount of App on.     *)
(* No record of AppSpec reaches toLocaleString, so one locale is enough;   *)
(* the clock stands still.                                                 *)
(***************************************************************************)
AppInit ==
    /\ locale = "en_US"
    /\ engine \in Engines
    /\ probe = NoProbe
    /\ appKey = NotCalled
    /\ rowKey = NotCalled
    /\ AppMounted
    /\ ReportMounted
    /\ tableExists \in BOOLEAN
    /\ now = Max(CreatedInputs)
    /\ store \in IF tableExists THEN InitialStores ELSE {<<>>}
    /\ nextId = Len(store) + 1
    /\ load = [phase |-> "querying"]
    /\ upload = Idle
    /\ pending = {}
    /\ nextCall = 1

\* getBills(): the database answers the select
GetBillsAnswered ==
    /\ load.phase = "querying"
    /\ \/ /\ tableExists
          /\ load' = [phase |-> "answered", ok |-> TRUE,
                      rows |-> [i \in 1..Len(store) |-> mapRowToRecord(store[i])]]
       \/ /\ ~tableExists
          /\ load' = [phase |-> "answered", ok |-> FALSE, message |-> "Could not find the table"]
       \/ \E m \in {"Invalid API Key", "Failed to fetch"} :
              load' = [phase |-> "answered", ok |-> FALSE, message |-> m]
    /\ UNCHANGED <<resolverVars, envVars, appVars, reportVars, store, nextId, upload, pending, nextCall>>

\* loadBills(), after the await
loadBills ==
    /\ load.phase = "answered"
    /\ load' = Idle
    /\ IF load.ok
       THEN /\ bills' = load.rows
            /\ isDbMissing' = FALSE
            /\ UNCHANGED error
       ELSE IF load.message = "Could not find the table"
       THEN /\ isDbMissing' = TRUE
            /\ UNCHANGED <<bills, error>>
       ELSE IF load.message = "Invalid API Key"
       THEN /\ error' = "Failed to connect to database. Please check API Key configuration."
            /\ UNCHANGED <<bills, isDbMissing>>
       ELSE UNCHANGED <<bills, isDbMissing, error>>
    /\ UNCHANGED <<resolverVars, envVars, reportVars, store, nextId, upload, pending, nextCall,
                   selectedBill, isProcessing, isSchemaOutdated, activeTab, searchTerm,
                   filterStatus, groupByBiller, filterMonth>>

handleTabChange(tab) ==
    /\ activeTab' = tab
    /\ selectedBill' = Null
    /\ error' = NoError
    /\ UNCHANGED <<resolverVars, envVars, reportVars, asyncVars, bills, isProcessing,
                   isDbMissing, isSchemaOutdated, searchTerm, filterStatus,
                   groupByBiller, filterMonth>>

handleBack ==
    /\ CardShown
    /\ selectedBill' = Null
    /\ error' = NoError
    /\ activeTab' = IF activeTab = "upload" THEN "bills" ELSE activeTab
    /\ UNCHANGED <<resolverVars, envVars, reportVars, asyncVars, bills, isProcessing,
                   isDbMissing, isSchemaOutdated, searchTerm, filterStatus,
                   groupByBiller, filterMonth>>

\* onSelectBill(bill)
setSelectedBill(bill) ==
    /\ selectedBill' = bill
    /\ UNCHANGED <<resolverVars, envVars, reportVars, asyncVars, bills, isProcessing,
                   error, isDbMissing, isSchemaOutdated, activeTab, searchTerm,
                   filterStatus, groupByBiller, filterMonth>>

\* a row of the list, which shows filteredBills, is clicked
RowClicked ==
    /\ ListShown
    /\ \E i \in 1..Len(filteredBills) : setSelectedBill(filteredBills[i])

\* a file is dropped on, or chosen in, FileUpload; the handler keeps the
\* isDbMissing of the render it was made in
handleFileSelect ==
    /\ ~isProcessing /\ selectedBill = Null /\ activeTab = "upload"
    /\ upload = Idle
    /\ nextId <= MaxRecords
    /\ isProcessing' = TRUE
    /\ error' = NoError
    /\ upload' = [phase |-> "reading", isDbMissing |-> isDbMissing]
    /\ UNCHANGED <<resolverVars, envVars, reportVars, store, nextId, load, pending, nextCall,
                   bills, selectedBill, isDbMissing, isSchemaOutdated, activeTab,
                   searchTerm, filterStatus, groupByBiller, filterMonth>>

\* reader.onerror
ReaderError ==
    /\ upload.phase = "reading"
    /\ error' = "Error reading the file."
    /\ isProcessing' = FALSE
    /\ upload' = Idle
    /\ UNCHANGED <<resolverVars, envVars, reportVars, store, nextId, load, pending, nextCall,
                   bills, selectedBill, isDbMissing, isSchemaOutdated, activeTab,
                   searchTerm, filterStatus, groupByBiller, filterMonth>>

\* reader.onload, up to the call of extractBillData
ReaderLoad ==
    /\ upload.phase = "reading"
    /\ \/ /\ error' = "Failed to read file."
          /\ isProcessing' = FALSE
          /\ upload' = Idle
       \/ /\ upload' = [upload EXCEPT !.phase = "extracting"]
          /\ UNCHANGED <<error, isProcessing>>
    /\ UNCHANGED <<resolverVars, envVars, reportVars, store, nextId, load, pending, nextCall,
                   bills, selectedBill, isDbMissing, isSchemaOutdated, activeTab,
                   searchTerm, filterStatus, groupByBiller, filterMonth>>

\* extractBillData throws and the handler has no finally branch
ExtractFailedNoFinally ==
    /\ upload.phase = "extracting"
    /\ error' = "No data returned from Gemini."
    /\ upload' = Idle
    /\ UNCHANGED <<resolverVars, envVars, reportVars, store, nextId, load, pending, nextCall,
                   bills, selectedBill, isProcessing, isDbMissing, isSchemaOutdated,
                   activeTab, searchTerm, filterStatus, groupByBiller, filterMonth>>

\* extractBillData throws
ExtractFailed ==
    /\ upload.phase = "extracting"
    /\ error' = "No data returned from Gemini."
    /\ isProcessing' = FALSE
    /\ upload' = Idle
    /\ UNCHANGED <<resolverVars, envVars, reportVars, store, nextId, load, pending, nextCall,
                   bills, selectedBill, isDbMissing, isSchemaOutdated, activeTab,
                   searchTerm, filterStatus, groupByBiller, filterMonth>>

\* the record put behind the others: setBills(prev => [...prev, savedRecord])
ShowSavedAtEnd(savedRecord) ==
    /\ bills' = Append(bills, savedRecord)
    /\ selectedBill' = savedRecord
    /\ isProcessing' = FALSE
    /\ upload' = Idle

\* setBills(prev => [savedRecord, ...prev]); setSelectedBill(savedRecord); finally
ShowSaved(savedRecord) ==
    /\ bills' = <<savedRecord>> \o bills
    /\ selectedBill' = savedRecord
    /\ isProcessing' = FALSE
    /\ upload' = Idle

\* extractBillData returns data: saveBill(data) is called, or, with
\* isDbMissing, the record is made locally at once
Extracted(data) ==
    /\ upload.phase = "extracting"
    /\ IF upload.isDbMissing
       THEN /\ ShowSaved(LocalRecord(data, nextId, now))
            /\ nextId' = nextId + 1
       ELSE /\ upload' = [phase |-> "saving", data |-> data]
            /\ UNCHANGED <<bills, selectedBill, isProcessing, nextId>>
    /\ UNCHANGED <<resolverVars, envVars, reportVars, store, load, pending, nextCall, error,
                   isDbMissing, isSchemaOutdated, activeTab, searchTerm, filterStatus,
                   groupByBiller, filterMonth>>

\* saveBill: the database inserts the row
SaveBillInserted ==
    /\ upload.phase = "saving"
    /\ tableExists
    /\ LET row == InsertedRow(upload.data, nextId, now)
       IN  /\ store' = <<row>> \o store
           /\ upload' = [phase |-> "saved", row |-> row]
    /\ nextId' = nextId + 1
    /\ UNCHANGED <<resolverVars, envVars, reportVars, appVars, load, pending, nextCall>>

\* saveBill returns the inserted row
SaveBillReturned ==
    /\ upload.phase = "saved"
    /\ ShowSaved(mapRowToRecord(upload.row))
    /\ UNCHANGED <<resolverVars, envVars, reportVars, store, nextId, load, pending, nextCall, error,
                   isDbMissing, isSchemaOutdated, activeTab, searchTerm, filterStatus,
                   groupByBiller, filterMonth>>

\* saveBill throws: the record is made locally
SaveBillFailed(message) ==
    /\ upload.phase = "saving"
    /\ isSchemaOutdated' = (isSchemaOutdated \/ message = "column due_date does not exist")
    /\ ShowSaved(LocalRecord(upload.data, nextId, now))
    /\ nextId' = nextId + 1
    /\ UNCHANGED <<resolverVars, envVars, reportVars, store, load, pending, nextCall, error,
                   isDbMissing, activeTab, searchTerm, filterStatus, groupByBiller,
                   filterMonth>>

\* list, with the status of the records (or rows) of this id set to status
WithStatus(list, id, status) ==
    [i \in 1..Len(list) |->
        IF list[i].id = id THEN [list[i] EXCEPT !.status = status] ELSE list[i]]

\* handleToggleStatus(id, currentStatus), up to the await
handleToggleStatus(id, currentStatus) ==
    LET newStatus == IF currentStatus = "paid" THEN "unpaid" ELSE "paid"
        call == [kind |-> "toggle", call |-> nextCall, id |-> id, newStatus |-> newStatus,
                 currentStatus |-> currentStatus, bills |-> bills,
                 selectedBill |-> selectedBill]
    IN  /\ bills' = WithStatus(bills, id, newStatus)
        /\ selectedBill' =
               IF selectedBill # Null /\ selectedBill.id = id
               THEN [selectedBill EXCEPT !.status = newStatus]
               ELSE selectedBill
        /\ IF isDbMissing
           THEN UNCHANGED <<pending, nextCall>>
           ELSE /\ nextCall <= MaxCalls
                /\ pending' = pending \cup {call}
                /\ nextCall' = nextCall + 1
        /\ UNCHANGED <<resolverVars, envVars, reportVars, store, nextId, load, upload,
                       isProcessing, error, isDbMissing, isSchemaOutdated, activeTab,
                       searchTerm, filterStatus, groupByBiller, filterMonth>>

\* the status button of the BillCard: onToggleStatus(data.id, data.status)
ToggleClicked ==
    /\ CardShown
    /\ handleToggleStatus(selectedBill.id, selectedBill.status)

\* updateBillStatus succeeds: the database has updated the rows of this id
UpdateBillStatusDone(call) ==
    /\ call \in pending /\ call.kind = "toggle"
    /\ tableExists
    /\ store' = WithStatus(store, call.id, call.newStatus)
    /\ pending' = pending \ {call}
    /\ UNCHANGED <<resolverVars, envVars, reportVars, appVars, nextId, load, upload, nextCall>>

\* updateBillStatus throws: the handler reverts, from the bills and the
\* selectedBill of the render it was called in
UpdateBillStatusFailed(call) ==
    /\ call \in pending /\ call.kind = "toggle"
    /\ pending' = pending \ {call}
    /\ bills' = WithStatus(call.bills, call.id, call.currentStatus)
    /\ selectedBill' =
           IF call.selectedBill # Null /\ call.selectedBill.id = call.id
           THEN [call.selectedBill EXCEPT !.status = call.currentStatus]
           ELSE selectedBill
    /\ UNCHANGED <<resolverVars, envVars, reportVars, store, nextId, load, upload, nextCall,
                   isProcessing, error, isDbMissing, isSchemaOutdated, activeTab,
                   searchTerm, filterStatus, groupByBiller, filterMonth>>

\* the delete button of the BillCard, window.confirm answered with Cancel
DeleteDeclined ==
    /\ CardShown
    /\ UNCHANGED vars

\* handleDelete(id) with window.confirm answered with OK, up to the await
handleDelete(id) ==
    LET call == [kind |-> "delete", call |-> nextCall, id |-> id, prevBills |-> bills]
        isSelected == selectedBill # Null /\ selectedBill.id = id
    IN  /\ bills' = SelectSeq(bills, LAMBDA b : b.id # id)
        /\ selectedBill' = IF isSelected THEN Null ELSE selectedBill
        /\ activeTab' = IF isSelected /\ activeTab = "upload" THEN "bills" ELSE activeTab
        /\ IF isDbMissing
           THEN UNCHANGED <<pending, nextCall>>
           ELSE /\ nextCall <= MaxCalls
                /\ pending' = pending \cup {call}
                /\ nextCall' = nextCall + 1
        /\ UNCHANGED <<resolverVars, envVars, reportVars, store, nextId, load, upload,
                       isProcessing, error, isDbMissing, isSchemaOutdated, searchTerm,
                       filterStatus, groupByBiller, filterMonth>>

\* the delete button of the BillCard: onDelete(data.id)
DeleteClicked ==
    /\ CardShown
    /\ handleDelete(selectedBill.id)

\* deleteBill succeeds: the database has deleted the rows of this id
DeleteBillDone(call) ==
    /\ call \in pending /\ call.kind = "delete"
    /\ tableExists
    /\ store' = SelectSeq(store, LAMBDA r : r.id # call.id)
    /\ pending' = pending \ {call}
    /\ UNCHANGED <<resolverVars, envVars, reportVars, appVars, nextId, load, upload, nextCall>>

\* deleteBill throws and the catch branch leaves the collection as it is
DeleteBillFailedNoRollback(call) ==
    /\ call \in pending /\ call.kind = "delete"
    /\ pending' = pending \ {call}
    /\ UNCHANGED <<resolverVars, envVars, reportVars, store, nextId, load, upload, nextCall,
                   appVars>>

\* deleteBill throws: setBills(prevBills)
DeleteBillFailed(call) ==
    /\ call \in pending /\ call.kind = "delete"
    /\ pending' = pending \ {call}
    /\ bills' = call.prevBills
    /\ UNCHANGED <<resolverVars, envVars, reportVars, store, nextId, load, upload, nextCall,
                   selectedBill, isProcessing, error, isDbMissing, isSchemaOutdated,
                   activeTab, searchTerm, filterStatus, groupByBiller, filterMonth>>

Tabs == {"bills", "upload", "report"}

AppNext ==
    \/ GetBillsAnswered
    \/ loadBills
    \/ \E tab \in Tabs : handleTabChange(tab)
    \/ handleBack
    \/ RowClicked
    \/ handleFileSelect
    \/ ReaderError
    \/ ReaderLoad
    \/ ExtractFailed
    \/ \E data \in Extractions : Extracted(data)
    \/ SaveBillInserted
    \/ SaveBillReturned
    \/ \E m \in {"column due_date does not exist", "Failed to fetch"} : SaveBillFailed(m)
    \/ ToggleClicked
    \/ \E call \in pending : UpdateBillStatusDone(call)
    \/ \E call \in pending : UpdateBillStatusFailed(call)
    \/ DeleteDeclined
    \/ DeleteClicked
    \/ \E call \in pending : DeleteBillDone(call)
    \/ \E call \in pending : DeleteBillFailed(call)

AppSpec == AppInit /\ [][AppNext]_vars

(***************************************************************************)
(* FilterSpec: the list view over a collection that is already there.      *)
(* The collection is one that uploads against a database without the bills *)
(* table leave behind: local records, one of them toggled to paid.  None   *)
(* of them reaches toLocaleString, so one locale is enough.                *)
(***************************************************************************)
\* the most records of a listed collection
MaxListed == 3

\* the records of the listed collections, uploaded one after the other
ListedRecords ==
    { LocalRecord(MarchBill, 4, now - 3),
      [LocalRecord(OctoberBill, 1, now - 2) EXCEPT !.status = "paid"],
      LocalRecord(NumericBill, 2, now - 1),
      LocalRecord(MonthOnlyBill, 3, now - 1) }

\* the sequences of n different elements of S
RECURSIVE ArrangementsOf(_, _)
ArrangementsOf(S, n) ==
    IF n = 0 THEN {<<>>}
    ELSE UNION {{Append(a, x) : x \in S \ Range(a)} : a \in ArrangementsOf(S, n - 1)}

\* every upload puts its record in front of the others: newest first
IsNewestFirst(list) ==
    \A i, j \in 1..Len(list) : i < j => list[i].createdAt >= list[j].createdAt

ListedCollections ==
    {list \in UNION {ArrangementsOf(ListedRecords, n) : n \in 0..MaxListed} :
        IsNewestFirst(list)}

\* what is typed in the search box
SearchTerms == {<<>>, <<"d","i","a">>, <<"M","O","B">>}

ListedInit ==
    /\ locale = "en_US"
    /\ engine \in Engines
    /\ probe = NoProbe
    /\ appKey = NotCalled
    /\ rowKey = NotCalled
    /\ tableExists = FALSE
    /\ now = Max(CreatedInputs)
    /\ bills \in ListedCollections
    /\ selectedBill = Null
    /\ isProcessing = FALSE
    /\ error = NoError
    /\ isDbMissing = TRUE
    /\ isSchemaOutdated = FALSE
    /\ searchTerm = <<>>
    /\ filterStatus = "all"
    /\ groupByBiller = FALSE
    /\ filterMonth = All
    /\ ReportMounted
    /\ store = <<>>
    /\ nextId = Cardinality(ListedRecords) + 1
    /\ load = Idle
    /\ upload = Idle
    /\ pending = {}
    /\ nextCall = 1

FilterInit == ListedInit /\ activeTab = "bills"

setSearchTerm(value) ==
    /\ ListShown
    /\ searchTerm' = value
    /\ UNCHANGED <<resolverVars, envVars, reportVars, asyncVars, bills, selectedBill,
                   isProcessing, error, isDbMissing, isSchemaOutdated, activeTab,
                   filterStatus, groupByBiller, filterMonth>>

setFilterMonth(value) ==
    /\ filterMonth' = value
    /\ UNCHANGED <<resolverVars, envVars, reportVars, asyncVars, bills, selectedBill,
                   isProcessing, error, isDbMissing, isSchemaOutdated, activeTab,
                   searchTerm, filterStatus, groupByBiller>>

\* an option of the month dropdown is chosen: "all", or one of availableMonths
MonthChosen ==
    /\ ListShown
    /\ \E value \in {All} \cup Range(availableMonths) : setFilterMonth(value)

setFilterStatus(status) ==
    /\ ListShown
    /\ filterStatus' = status
    /\ UNCHANGED <<resolverVars, envVars, reportVars, asyncVars, bills, selectedBill,
                   isProcessing, error, isDbMissing, isSchemaOutdated, activeTab,
                   searchTerm, groupByBiller, filterMonth>>

\* the Group button: setGroupByBiller(!groupByBiller)
setGroupByBiller ==
    /\ ListShown
    /\ groupByBiller' = ~groupByBiller
    /\ UNCHANGED <<resolverVars, envVars, reportVars, asyncVars, bills, selectedBill,
                   isProcessing, error, isDbMissing, isSchemaOutdated, activeTab,
                   searchTerm, filterStatus, filterMonth>>

FilterNext ==
    \/ \E value \in SearchTerms : setSearchTerm(value)
    \/ MonthChosen
    \/ \E status \in {"all", "paid", "unpaid"} : setFilterStatus(status)
    \/ setGroupByBiller
    \/ RowClicked
    \/ handleBack

FilterSpec == FilterInit /\ [][FilterNext]_vars

(***************************************************************************)
(* Claims about the month filter and the month dropdown                    *)
(***************************************************************************)
\* C9: with a month other than "all" selected, a record that passes the search
\* and the status filter is in the filtered list if and only if its period key
\* is equal, as a string, to the selected key; with "all" selected every such
\* record is in the filtered list
C9_MonthFilterIsKeyEquality ==
    \A i \in 1..Len(bills) :
        matchesSearch(bills[i]) /\ matchesStatus(bills[i])
        => IF filterMonth = All
           THEN bills[i] \in Range(filteredBills)
           ELSE bills[i] \in Range(filteredBills) <=> getBillMonthYear(bills[i]) = filterMonth

\* "Oct 2023" is selected, search and status let everything pass, and the list
\* then shows the record of "Oct 2023" and not the record of October of
\* another year
C9_Witness ==
    /\ filterMonth = <<"O","c","t"," ","2","0","2","3">>
    /\ searchTerm = <<>>
    /\ filterStatus = "all"
    /\ \E i, j \in 1..Len(bills) :
          /\ getBillMonthYear(bills[i]) = filterMonth
          /\ bills[i] \in Range(filteredBills)
          /\ Prefix(getBillMonthYear(bills[j]), 3) = <<"O","c","t">>
          /\ getBillMonthYear(bills[j]) # filterMonth
          /\ bills[j] \notin Range(filteredBills)

\* the place of a key "<Mon> <Year>" in time: months since the year 0
PeriodRank(k) ==
    12 * parseInt(SubSeq(k, 5, 8)) + (CHOOSE m \in 1..12 : months[m] = SubSeq(k, 1, 3))

\* C10: the options of the month dropdown are exactly the distinct period keys
\* of the records of the collection, each once, the most recent period first
C10_OptionsAreKeysMostRecentFirst ==
    /\ Range(availableMonths) = {getBillMonthYear(bills[i]) : i \in 1..Len(bills)}
    /\ \A i, j \in 1..Len(availableMonths) :
          i < j
          => /\ availableMonths[i] # availableMonths[j]
             /\ IsCanonicalKey(availableMonths[i]) /\ IsCanonicalKey(availableMonths[j])
                => PeriodRank(availableMonths[i]) > PeriodRank(availableMonths[j])

(***************************************************************************)
(* Claims about the composition of the three filters and about the search  *)
(***************************************************************************)
\* term occurs in text when letters are compared without regard to case
OccursIgnoringCase(text, term) ==
    \E i \in 1..(Len(text) + 1) : LitAt(text, i, term, TRUE)

\* the search of the claim: the term is in the name, or in the summary of a
\* record that has one
SearchHit(bill) ==
    \/ OccursIgnoringCase(bill.billName, searchTerm)
    \/ /\ bill.summary # Undefined
       /\ OccursIgnoringCase(bill.summary, searchTerm)

StatusHit(bill) == filterStatus = "all" \/ bill.status = filterStatus

MonthHit(bill) == filterMonth = All \/ getBillMonthYear(bill) = filterMonth

\* C11: a record of the collection is in the filtered list if and only if it
\* passes the search, the status filter (equal status, or "all") and the month
\* filter; the filtered list holds records of the collection only, in the
\* order of the collection
C11_ListedIffAllThreePass ==
    /\ \A i \in 1..Len(bills) :
          bills[i] \in Range(filteredBills)
          <=> SearchHit(bills[i]) /\ StatusHit(bills[i]) /\ MonthHit(bills[i])
    /\ \A i, j \in 1..Len(filteredBills) :
          i < j
          => \E k, l \in 1..Len(bills) :
                k < l /\ bills[k] = filteredBills[i] /\ bills[l] = filteredBills[j]

\* the search is "dia" and the status filter is 'unpaid': the paid Dialog
\* record passes the search and the month and is not listed, the unpaid record
\* of another biller fails the search alone and is not listed either
C11_Witness ==
    /\ searchTerm = <<"d","i","a">>
    /\ filterStatus = "unpaid"
    /\ \E i, j \in 1..Len(bills) :
          /\ SearchHit(bills[i]) /\ MonthHit(bills[i]) /\ ~StatusHit(bills[i])
          /\ bills[i] \notin Range(filteredBills)
          /\ ~SearchHit(bills[j]) /\ StatusHit(bills[j]) /\ MonthHit(bills[j])
          /\ bills[j] \notin Range(filteredBills)

\* C12: among the records the status and the month filter let pass, a record
\* is listed if and only if the search term occurs, letters compared without
\* regard to case, in its billName or in its summary when it has one; a record
\* without a summary is decided by its billName
C12_SearchIsCaseInsensitiveSubstring ==
    \A i \in 1..Len(bills) :
        matchesStatus(bills[i]) /\ matchesMonth(bills[i])
        => /\ bills[i] \in Range(filteredBills) <=> SearchHit(bills[i])
           /\ bills[i].summary \in {Undefined, <<>>}
              => (bills[i] \in Range(filteredBills)
                  <=> OccursIgnoringCase(bills[i].billName, searchTerm))

\* the search is "MOB": the Dialog record is listed for its summary "Mobile"
\* alone, and a record without a summary is not listed
C12_Witness ==
    /\ searchTerm = <<"M","O","B">>
    /\ filterStatus = "all"
    /\ filterMonth = All
    /\ \E i, j \in 1..Len(bills) :
          /\ ~OccursIgnoringCase(bills[i].billName, searchTerm)
          /\ bills[i].summary = <<"M","o","b","i","l","e">>
          /\ bills[i] \in Range(filteredBills)
          /\ bills[j].summary = Undefined
          /\ bills[j] \notin Range(filteredBills)

(***************************************************************************)
(* ReportSpec: ReportDashboard over a collection that is already there     *)
(***************************************************************************)
Unknown == <<"U","n","k","n","o","w","n">>

\* x || 'Unknown'
OrUnknown(x) == IF x = Undefined \/ x = <<>> THEN Unknown ELSE x

\* s.split(' ')[0]
FirstPart(s) ==
    LET spaces == {i \in 1..Len(s) : s[i] = " "}
    IN  IF spaces = {} THEN s ELSE SubSeq(s, 1, Min(spaces) - 1)

\* the year of the resolver's pattern, 20[2-3]\d, in place of 20\d{2}
getYearFromPeriodOfResolver(period) ==
    LET match == MatchYear(period, {"2", "3"})
    IN  IF match.found THEN match.m0 ELSE Unknown

getYearFromPeriod(period) ==
    LET match == MatchYear(period, Range(Digits))
    IN  IF match.found THEN match.m0 ELSE Unknown

\* the Sets of the dropdowns, before they are sorted
billers == {bills[i].billName : i \in {j \in 1..Len(bills) : bills[j].billName # <<>>}}

years ==
    {getYearFromPeriod(bills[i].dateOfPeriod) :
        i \in {j \in 1..Len(bills) : bills[j].dateOfPeriod # <<>>}}

\* chartData, step 1: the records that pass the biller and the year filter
InChartFiltered(bill) ==
    LET billYear    == getYearFromPeriod(bill.dateOfPeriod)
        matchBiller == selectedBiller = All \/ bill.billName = selectedBiller
        matchYear   == selectedYear = All \/ billYear = selectedYear
    IN  matchBiller /\ matchYear

chartFiltered == SelectSeq(bills, InChartFiltered)

\* chartData, step 2: the grouping key
effectiveGroupBy == IF selectedBiller # All THEN "period" ELSE groupBy

bucketKey(bill) ==
    IF effectiveGroupBy = "period"
    THEN IF selectedYear # All
         THEN IF FirstPart(bill.dateOfPeriod) # <<>>
              THEN FirstPart(bill.dateOfPeriod)
              ELSE bill.dateOfPeriod
         ELSE OrUnknown(bill.dateOfPeriod)
    ELSE OrUnknown(bill.billName)

RECURSIVE SumOfAmounts(_)
SumOfAmounts(list) ==
    IF list = <<>> THEN 0 ELSE list[1].amount + SumOfAmounts(Tail(list))

\* acc[key] = bill.amount in place of acc[key] += bill.amount
groupedLastAmount ==
    [key \in {bucketKey(chartFiltered[i]) : i \in 1..Len(chartFiltered)} |->
        LET ofKey == SelectSeq(chartFiltered, LAMBDA bill : bucketKey(bill) = key)
        IN  ofKey[Len(ofKey)].amount]

grouped ==
    [key \in {bucketKey(chartFiltered[i]) : i \in 1..Len(chartFiltered)} |->
        SumOfAmounts(SelectSeq(chartFiltered, LAMBDA bill : bucketKey(bill) = key))]

\* ReportDashboard is on screen
ReportShown == ~isProcessing /\ selectedBill = Null /\ activeTab = "report"

ReportInit == ListedInit /\ activeTab = "report"

setSelectedBiller(value) ==
    /\ ReportShown
    /\ value \in {All} \cup billers
    /\ selectedBiller' = value
    /\ UNCHANGED <<resolverVars, envVars, appVars, asyncVars, selectedYear, groupBy, chartType>>

setSelectedYear(value) ==
    /\ ReportShown
    /\ value \in {All} \cup years
    /\ selectedYear' = value
    /\ UNCHANGED <<resolverVars, envVars, appVars, asyncVars, selectedBiller, groupBy, chartType>>

\* the By Time / By Biller buttons, shown with All Billers only
setGroupBy(value) ==
    /\ ReportShown
    /\ selectedBiller = All
    /\ groupBy' = value
    /\ UNCHANGED <<resolverVars, envVars, appVars, asyncVars, selectedBiller, selectedYear, chartType>>

setChartType(value) ==
    /\ ReportShown
    /\ chartType' = value
    /\ UNCHANGED <<resolverVars, envVars, appVars, asyncVars, selectedBiller, selectedYear, groupBy>>

ReportNext ==
    \/ \E value \in {All} \cup billers : setSelectedBiller(value)
    \/ \E value \in {All} \cup years : setSelectedYear(value)
    \/ \E value \in {"period", "biller"} : setGroupBy(value)
    \/ \E value \in {"line", "bar", "pie"} : setChartType(value)

ReportSpec == ReportInit /\ [][ReportNext]_vars

\* C8: when the report groups by period, the bucket key of every charted
\* record is its period key (all years) or the month of its period key (one
\* year selected), so records with the same period key share a bucket
C8_BucketIsCanonicalKey ==
    effectiveGroupBy = "period"
    => /\ \A i \in 1..Len(chartFiltered) :
             bucketKey(chartFiltered[i]) =
                 IF selectedYear = All
                 THEN getBillMonthYear(chartFiltered[i])
                 ELSE FirstPart(getBillMonthYear(chartFiltered[i]))
       /\ \A i, j \in 1..Len(chartFiltered) :
             getBillMonthYear(chartFiltered[i]) = getBillMonthYear(chartFiltered[j])
             => bucketKey(chartFiltered[i]) = bucketKey(chartFiltered[j])

(***************************************************************************)
(* BillHistory: the records it is given, grouped by biller                 *)
(***************************************************************************)
\* a property key that is an array index: "0", or digits without a leading zero
IsArrayIndex(key) ==
    /\ Len(key) >= 1
    /\ \A i \in 1..Len(key) : IsDigit(key[i])
    /\ Len(key) = 1 \/ key[1] # "0"

\* the keys of S, a set of array indices, in ascending numeric order
RECURSIVE AscendingIndices(_)
AscendingIndices(S) ==
    IF S = {} THEN <<>>
    ELSE LET least == CHOOSE k \in S : \A other \in S : parseInt(k) <= parseInt(other)
         IN  <<least>> \o AscendingIndices(S \ {least})

\* the order in which Object.entries lists the keys of an object whose keys
\* were added in the order of inserted: array indices first, ascending, then
\* the other keys in the order they were added
ObjectKeys(inserted) ==
    LET added == ArrayFromSet(inserted)
    IN  AscendingIndices({k \in Range(added) : IsArrayIndex(k)})
        \o SelectSeq(added, LAMBDA k : ~IsArrayIndex(k))

\* the comparator turned round: a.latest - b.latest
latestComparatorAscending(entries) ==
    [p \in entries \X entries |-> p[1].latest - p[2].latest]

\* (a, b) => b.latest - a.latest
latestComparator(entries) ==
    [p \in entries \X entries |-> p[2].latest - p[1].latest]

\* BillHistory is given filteredBills and groupByBiller
groupedBills ==
    IF ~groupByBiller THEN Null
    ELSE LET given  == filteredBills
             names  == ObjectKeys([i \in 1..Len(given) |-> OrUnknown(given[i].billName)])
             groups == [name \in Range(names) |->
                           SelectSeq(given, LAMBDA bill : OrUnknown(bill.billName) = name)]
             mapped == [k \in 1..Len(names) |->
                           LET items == groups[names[k]]
                           IN  [name   |-> names[k],
                                items  |-> items,
                                total  |-> SumOfAmounts(items),
                                latest |-> Max({items[i].createdAt : i \in 1..Len(items)})]]
         IN  ArraySort(mapped, latestComparator(Range(mapped)))

\* the amounts of the records of list at the places in S, added up
RECURSIVE AmountAt(_, _)
AmountAt(list, S) ==
    IF S = {} THEN 0
    ELSE LET i == CHOOSE i \in S : TRUE
         IN  list[i].amount + AmountAt(list, S \ {i})

\* C13: with grouping on, the groups partition the listed records by billName,
\* a record without a name under "Unknown": every record is in exactly one
\* group, the one of its name; a group's total is the sum of the amounts of its
\* records, whatever their currency; its latest is the greatest createdAt in
\* it; and the groups are in descending order of latest
C13_GroupsPartitionByBiller ==
    groupByBiller
    => LET G == groupedBills
           L == filteredBills
           NameOf(bill) == IF bill.billName = <<>> THEN Unknown ELSE bill.billName
           Members(g) == {i \in 1..Len(L) : NameOf(L[i]) = G[g].name}
       IN  /\ \A i \in 1..Len(L) :
                 Cardinality({g \in 1..Len(G) : L[i] \in Range(G[g].items)}) = 1
           /\ \A g \in 1..Len(G) :
                 /\ Members(g) # {}
                 /\ Range(G[g].items) = {L[i] : i \in Members(g)}
                 /\ Len(G[g].items) = Cardinality(Members(g))
                 /\ G[g].total = AmountAt(L, Members(g))
                 /\ \E i \in Members(g) : L[i].createdAt = G[g].latest
                 /\ \A i \in Members(g) : L[i].createdAt <= G[g].latest
           /\ \A g, h \in 1..Len(G) : g < h => G[g].latest >= G[h].latest

\* three records are listed, two of Dialog and a later one without a name:
\* the group "Unknown" with total 3 comes first, the group of Dialog with
\* total 17 = 10 + 7 second
C13_Witness ==
    /\ groupByBiller
    /\ Len(filteredBills) = 3
    /\ Len(groupedBills) = 2
    /\ groupedBills[1].name = Unknown
    /\ groupedBills[1].total = 3
    /\ groupedBills[2].name = <<"D","i","a","l","o","g">>
    /\ groupedBills[2].total = 17
    /\ groupedBills[2].latest < groupedBills[1].latest

(***************************************************************************)
(* ReportDashboard: the buckets of chartData and their order               *)
(***************************************************************************)
\* the table of month ranks, as pairs <<key, rank>>
MONTH_ORDER ==
    {
      <<<<"j","a","n">>, 0>>, <<<<"j","a","n","u","a","r","y">>, 0>>,
      <<<<"f","e","b">>, 1>>, <<<<"f","e","b","r","u","a","r","y">>, 1>>,
      <<<<"m","a","r">>, 2>>, <<<<"m","a","r","c","h">>, 2>>,
      <<<<"a","p","r">>, 3>>, <<<<"a","p","r","i","l">>, 3>>,
      <<<<"m","a","y">>, 4>>,
      <<<<"j","u","n">>, 5>>, <<<<"j","u","n","e">>, 5>>,
      <<<<"j","u","l">>, 6>>, <<<<"j","u","l","y">>, 6>>,
      <<<<"a","u","g">>, 7>>, <<<<"a","u","g","u","s","t">>, 7>>,
      <<<<"s","e","p">>, 8>>, <<<<"s","e","p","t","e","m","b","e","r">>, 8>>,
      <<<<"o","c","t">>, 9>>, <<<<"o","c","t","o","b","e","r">>, 9>>,
      <<<<"n","o","v">>, 10>>, <<<<"n","o","v","e","m","b","e","r">>, 10>>,
      <<<<"d","e","c">>, 11>>, <<<<"d","e","c","e","m","b","e","r">>, 11>> }

\* period.replace(/[^a-zA-Z]/g, '').toLowerCase()
getMonthFromPeriod(period) == LowerStr(SelectSeq(period, IsAlpha))

\* a table lookup that puts the labels it does not know first
MonthRankUnknownFirst(month) ==
    IF \E e \in MONTH_ORDER : e[1] = month
    THEN (CHOOSE e \in MONTH_ORDER : e[1] = month)[2]
    ELSE 0 - 1

\* MONTH_ORDER[month] ?? 99
MonthRank(month) ==
    IF \E e \in MONTH_ORDER : e[1] = month
    THEN (CHOOSE e \in MONTH_ORDER : e[1] = month)[2]
    ELSE 99

\* Object.entries(grouped).map(([name, value]) => ({ name, value }))
result ==
    LET keys == ObjectKeys([i \in 1..Len(chartFiltered) |-> bucketKey(chartFiltered[i])])
    IN  [k \in 1..Len(keys) |-> [name |-> keys[k], value |-> grouped[keys[k]]]]

\* one year selected: the ranks of the months of the two labels, subtracted
monthOrderComparator(entries) ==
    [p \in entries \X entries |->
        MonthRank(getMonthFromPeriod(p[1].name)) - MonthRank(getMonthFromPeriod(p[2].name))]

\* all years: the two labels as dates
fullDateComparator(entries) ==
    [p \in entries \X entries |->
        LET dateA == DateParse(p[1].name)
            dateB == DateParse(p[2].name)
        IN  IF ~dateA.valid THEN 1
            ELSE IF ~dateB.valid THEN 0 - 1
            ELSE dateA.t - dateB.t]

\* by biller: b.value - a.value
amountComparator(entries) ==
    [p \in entries \X entries |-> p[2].value - p[1].value]

resultComparator ==
    IF effectiveGroupBy = "period"
    THEN IF selectedYear # All
         THEN monthOrderComparator(Range(result))
         ELSE fullDateComparator(Range(result))
    ELSE amountComparator(Range(result))

\* a straight insertion sort: each element moves left past every element the
\* comparator puts after it
RECURSIVE InsertLeft(_, _, _, _)
InsertLeft(a, cmp, item, j) ==
    IF j < 1 \/ cmp[<<a[j], item>>] <= 0
    THEN [a EXCEPT ![j + 1] = item]
    ELSE InsertLeft([a EXCEPT ![j + 1] = a[j]], cmp, item, j - 1)

RECURSIVE InsertionSort(_, _, _)
InsertionSort(a, cmp, i) ==
    IF i > Len(a) THEN a
    ELSE InsertionSort(InsertLeft(a, cmp, a[i], i - 1), cmp, i + 1)

\* what Array.prototype.sort can leave behind.  With a consistent comparator
\* the order is the one stable order; with an inconsistent one the order is
\* implementation-defined: the binary insertion of ArraySort and the straight
\* insertion of InsertionSort are two sorts engines use for short arrays.
Sorts(a, cmp) == {ArraySort(a, cmp), InsertionSort(a, cmp, 2)}

\* the values chartData can have
chartDataResults == Sorts(result, resultComparator)

toUpperCaseAll(s) == [i \in 1..Len(s) |-> toUpperCase(s[i])]

\* the rank of a label: 0..11 when its letters, case ignored, are the name of
\* a month or the first three letters of one, 99 otherwise
LabelRank(label) ==
    LET letters == LowerStr(SelectSeq(label, IsAlpha))
        named   == {i \in 1..12 : letters \in {LowerStr(months[i]), LowerStr(FullMonthNames[i])}}
    IN  IF named = {} THEN 99 ELSE Min(named) - 1

\* C14: with one year selected and the buckets by period, the buckets are in
\* ascending order of the rank of their label, so every bucket whose label is
\* no month name comes after every bucket of a month
C14_SingleYearByMonthRank ==
    /\ \A e \in MONTH_ORDER : MonthRank(e[1]) = LabelRank(e[1]) /\ e[2] \in 0..11
    /\ \A i \in 1..12 :
          /\ MonthRank(getMonthFromPeriod(toUpperCaseAll(months[i]))) = i - 1
          /\ MonthRank(getMonthFromPeriod(FullMonthNames[i])) = i - 1
    /\ selectedYear # All /\ effectiveGroupBy = "period"
       => \A data \in chartDataResults :
             /\ Len(data) = Len(result)
             /\ \A i, j \in 1..Len(data) :
                   i < j
                   => /\ LabelRank(data[i].name) <= LabelRank(data[j].name)
                      /\ LabelRank(data[i].name) = 99 => LabelRank(data[j].name) = 99

\* year 2023 of three records, newest first: the buckets were made in the
\* order "15/10/2023", "October", "March" and are shown as "March", "October",
\* "15/10/2023"
C14_Witness ==
    /\ selectedYear = <<"2","0","2","3">>
    /\ effectiveGroupBy = "period"
    /\ Len(result) = 3
    /\ result[1].name = <<"1","5","/","1","0","/","2","0","2","3">>
    /\ result[3].name = <<"M","a","r","c","h">>
    /\ \A data \in chartDataResults :
          /\ data[1].name = <<"M","a","r","c","h">>
          /\ data[2].name = <<"O","c","t","o","b","e","r">>
          /\ data[3].name = <<"1","5","/","1","0","/","2","0","2","3">>

\* a match of 20 and two digits starts at index i of s
YearAt(s, i) ==
    /\ i >= 1 /\ i + 3 <= Len(s)
    /\ s[i] = "2" /\ s[i + 1] = "0" /\ IsDigit(s[i + 2]) /\ IsDigit(s[i + 3])

\* r is the first such match in s, or "Unknown" when s has none
IsFirstYearOf(r, s) ==
    IF \E i \in 1..Len(s) : YearAt(s, i)
    THEN \E i \in 1..Len(s) :
            /\ YearAt(s, i)
            /\ r = SubSeq(s, i, i + 3)
            /\ \A j \in 1..(i - 1) : ~YearAt(s, j)
    ELSE r = Unknown

\* C15: getYearFromPeriod returns the first substring of its input that is 20
\* followed by two digits, "Unknown" when there is none, and "2023" on
\* "Oct 2023"; among the records the biller filter lets pass, the year filter
\* keeps a record if and only if that year is the selected year, and keeps
\* every record when all years are selected
C15_YearIsFirstMatch ==
    /\ \A s \in PeriodInputs \cup {bills[i].dateOfPeriod : i \in 1..Len(bills)} :
          IsFirstYearOf(getYearFromPeriod(s), s)
    /\ getYearFromPeriod(<<"O","c","t"," ","2","0","2","3">>) = <<"2","0","2","3">>
    /\ \A i \in 1..Len(bills) :
          selectedBiller = All \/ bills[i].billName = selectedBiller
          => (bills[i] \in Range(chartFiltered)
              <=> selectedYear = All \/ IsFirstYearOf(selectedYear, bills[i].dateOfPeriod))

\* year 2023 is selected: the record of "15/10/2023" is charted and the record
\* of "October", whose year is "Unknown", is not
C15_Witness ==
    /\ selectedYear = <<"2","0","2","3">>
    /\ selectedBiller = All
    /\ \E i, j \in 1..Len(bills) :
          /\ bills[i].dateOfPeriod = <<"1","5","/","1","0","/","2","0","2","3">>
          /\ bills[i] \in Range(chartFiltered)
          /\ getYearFromPeriod(bills[j].dateOfPeriod) = Unknown
          /\ bills[j] \notin Range(chartFiltered)

\* the place of a label in a list of buckets
PlaceOf(data, label) == CHOOSE k \in 1..Len(data) : data[k].name = label

\* C16: with all years selected and the buckets by period, every label that
\* parses as a date comes before every label that does not, the labels that
\* parse are in ascending order of their date, and the labels that do not
\* parse are in the order in which the buckets were made
C16_AllYearsParseableFirst ==
    selectedYear = All /\ effectiveGroupBy = "period"
    => \A data \in chartDataResults :
          /\ {data[k] : k \in 1..Len(data)} = Range(result)
          /\ \A i, j \in 1..Len(data) :
                i < j
                => LET dateI == DateParse(data[i].name)
                       dateJ == DateParse(data[j].name)
                   IN  /\ dateJ.valid => dateI.valid
                       /\ dateI.valid /\ dateJ.valid => dateI.t <= dateJ.t
                       /\ ~dateI.valid /\ ~dateJ.valid
                          => PlaceOf(result, data[i].name) < PlaceOf(result, data[j].name)

\* the places in bills of the records that pass the biller and the year filter
PassingPlaces ==
    {i \in 1..Len(bills) :
        /\ selectedBiller = All \/ bills[i].billName = selectedBiller
        /\ selectedYear = All \/ getYearFromPeriod(bills[i].dateOfPeriod) = selectedYear}

\* the values of the buckets at the places in S, added up
RECURSIVE ValueAt(_, _)
ValueAt(data, S) ==
    IF S = {} THEN 0
    ELSE LET k == CHOOSE k \in S : TRUE
         IN  data[k].value + ValueAt(data, S \ {k})

\* C17: the value of every bucket is the sum of the amounts of the filtered
\* records whose key is the bucket's label, every filtered record has its key
\* on exactly one bucket, and the values of all buckets add up to the amounts
\* of the records that pass the biller and the year filter
C17_AmountsConserved ==
    \A data \in chartDataResults :
        /\ \A k \in 1..Len(data) :
              LET members == {i \in PassingPlaces : bucketKey(bills[i]) = data[k].name}
              IN  members # {} /\ data[k].value = AmountAt(bills, members)
        /\ \A i \in PassingPlaces :
              Cardinality({k \in 1..Len(data) : data[k].name = bucketKey(bills[i])}) = 1
        /\ ValueAt(data, 1..Len(data)) = AmountAt(bills, PassingPlaces)

\* by biller, year 2023, of three records: both Dialog records are in one
\* bucket of value 17, the record without a year is left out, and the buckets
\* add up to 17 of the 20 in the collection
C17_Witness ==
    /\ effectiveGroupBy = "biller"
    /\ selectedYear = <<"2","0","2","3">>
    /\ Len(bills) = 3
    /\ Cardinality(PassingPlaces) = 2
    /\ AmountAt(bills, 1..Len(bills)) = 20
    /\ \A data \in chartDataResults :
          /\ Len(data) = 1
          /\ data[1].name = <<"D","i","a","l","o","g">>
          /\ data[1].value = 17

(***************************************************************************)
(* Claims about upload, status toggle and delete                           *)
(***************************************************************************)
\* this step puts the unpaid record r in front of the collection and selects it
AddsInFront(r) ==
    /\ bills' = <<r>> \o bills
    /\ selectedBill' = r
    /\ r.status = "unpaid"

\* this step adds the record of the row the Store has just created
AddsStoreRecord ==
    /\ store # <<>>
    /\ AddsInFront([id |-> store[1].id, billName |-> store[1].bill_name,
                    dateOfPeriod |-> store[1].date_of_period, dueDate |-> store[1].due_date,
                    amount |-> store[1].amount, currency |-> store[1].currency,
                    summary |-> store[1].summary, status |-> store[1].status,
                    createdAt |-> store[1].created_at])
    /\ store' = store

\* this step adds a record made locally from the extracted data: an id of its
\* own, the time of the clock, and no row in the Store
AddsLocalRecord ==
    /\ \E data \in Extractions :
          AddsInFront([id |-> nextId, billName |-> data.billName,
                       dateOfPeriod |-> data.dateOfPeriod, dueDate |-> data.dueDate,
                       amount |-> data.amount, currency |-> data.currency,
                       summary |-> data.summary, status |-> "unpaid", createdAt |-> now])
    /\ \A k \in 1..Len(store) : store[k].id # nextId
    /\ \A k \in 1..Len(bills) : bills[k].id # nextId
    /\ store' = store

\* this step adds no record and leaves the selection alone
AddsNothing == bills' = bills /\ selectedBill' = selectedBill

\* C18: every step of an upload after the extraction has answered either adds
\* exactly one unpaid record in front of the collection and selects it - the
\* record of the row the Store created, or a local record when the create was
\* not tried or failed - or, when the extraction failed, adds nothing and sets
\* an error message; while the create is under way nothing is added
C18_UploadAddsOneUnpaidRecord ==
    [][ upload' # upload
        => /\ upload.phase = "extracting"
              => \/ upload' = Idle /\ AddsNothing /\ error' # NoError /\ store' = store
                 \/ upload'.phase = "saving" /\ AddsNothing /\ store' = store
                 \/ upload' = Idle /\ upload.isDbMissing /\ AddsLocalRecord
           /\ upload.phase = "saving"
              => \/ upload'.phase = "saved" /\ AddsNothing /\ Len(store') = Len(store) + 1
                 \/ upload' = Idle /\ AddsLocalRecord
           /\ upload.phase = "saved"
              => upload' = Idle /\ AddsStoreRecord
      ]_vars

\* an upload made on the upload tab has ended: the record of the row the Store
\* created is first in the collection, unpaid, and is the selected bill
C18_Witness ==
    /\ upload = Idle /\ ~isProcessing
    /\ activeTab = "upload"
    /\ selectedBill # Null
    /\ Len(bills) >= 2
    /\ bills[1] = selectedBill
    /\ selectedBill.status = "unpaid"
    /\ store # <<>> /\ store[1].id = selectedBill.id

\* the ids a record can have
RecordIds == 1..(MaxRecords + 1)

\* this step is the click of a status toggle on record id
ToggleClickOn(id) ==
    \/ \E c \in pending' \ pending : c.kind = "toggle" /\ c.id = id
    \/ /\ isDbMissing /\ pending' = pending
       /\ selectedBill # Null /\ selectedBill' # Null
       /\ selectedBill.id = id /\ selectedBill'.id = id
       /\ selectedBill'.status # selectedBill.status

\* this step is the end of the Store update of a status toggle on record id
ToggleEndOn(id) == \E c \in pending \ pending' : c.kind = "toggle" /\ c.id = id

\* from a to b nothing but the status differs
SameButStatus(a, b) == [a EXCEPT !.status = b.status] = b

\* this step changes, in list, nothing but the status of the elements of id
OnlyStatusOf(id, before, after) ==
    /\ Len(after) = Len(before)
    /\ \A k \in 1..Len(before) :
          /\ after[k].id = before[k].id
          /\ IF before[k].id = id THEN SameButStatus(before[k], after[k])
                                  ELSE after[k] = before[k]

\* this step changes nothing but the status of record id: in the collection,
\* in the selection and in the Store
TouchesOnlyStatusOf(id) ==
    /\ OnlyStatusOf(id, bills, bills')
    /\ OnlyStatusOf(id, store, store')
    /\ \/ selectedBill' = selectedBill
       \/ /\ selectedBill # Null /\ selectedBill' # Null
          /\ selectedBill.id = id
          /\ SameButStatus(selectedBill, selectedBill')

StatusIsPaidOrUnpaid ==
    /\ \A k \in 1..Len(bills) : bills[k].status \in {"paid", "unpaid"}
    /\ \A k \in 1..Len(store) : store[k].status \in {"paid", "unpaid"}
    /\ selectedBill # Null => selectedBill.status \in {"paid", "unpaid"}

\* C19: every step of a status toggle on record id - the click, and the end of
\* the Store update, be it a success or a failure that is reverted - changes
\* nothing but the status of that record: no record is added or removed, every
\* other record and every other field is as before; and in every reachable
\* state every status is 'paid' or 'unpaid'
C19_ToggleTouchesOnlyStatus ==
    /\ []StatusIsPaidOrUnpaid
    /\ [][ \A id \in RecordIds :
              ToggleClickOn(id) \/ ToggleEndOn(id) => TouchesOnlyStatusOf(id) ]_vars

\* this step is the success of the Store delete of record id: the call ends
\* and the Store has deleted
DeleteSucceedsOn(id) ==
    /\ \E c \in pending \ pending' : c.kind = "delete" /\ c.id = id
    /\ store' # store

\* C20: when the Store delete of a confirmed delete of record id succeeds, the
\* record is in neither the collection nor the Store and is not the selected
\* bill; a declined confirmation is a step that changes nothing
C20_DeletedIsGone ==
    [][ \A id \in RecordIds :
          DeleteSucceedsOn(id)
          => /\ \A k \in 1..Len(store') : store'[k].id # id
             /\ \A k \in 1..Len(bills') : bills'[k].id # id
             /\ selectedBill' = Null \/ selectedBill'.id # id ]_vars

(***************************************************************************)
(* Claims about the collection over the whole life of the application      *)
(***************************************************************************)
\* C21: in every reachable state no two records of the in-memory collection
\* have the same id
C21_IdsAreUnique ==
    \A i, j \in 1..Len(bills) : bills[i].id = bills[j].id => i = j

(***************************************************************************)
(* Claims about the order of the resolver's layers                         *)
(***************************************************************************)
\* the numeric dates of probe.dateOfPeriod that the pattern of layer 1 can
\* match, and the one it does match: the leftmost
NumericDates == DmyDates(probe.dateOfPeriod, {"/", "-"})

LeftmostNumericDate == CHOOSE d \in NumericDates : \A e \in NumericDates : d[1] <= e[1]

\* what layers 2 to 4 make of probe: the leftmost month name of the combined
\* text with the leftmost year 2020..2039 or else the year of createdAt; or
\* else dateOfPeriod parsed as a date after the year 2000; or else createdAt
LaterLayersKey ==
    LET ms == MonthNamesIn(CombinedText)
        ys == YearsIn(CombinedText)
        d  == DateParse(probe.dateOfPeriod)
    IN  IF ms # {}
        THEN months[(CHOOSE o \in ms : \A o2 \in ms : o[1] <= o2[1])[2]] \o <<" ">>
                 \o (IF ys # {} THEN SubSeq(CombinedText, Min(ys), Min(ys) + 3)
                     ELSE IntToStr(CivilFromDays(probe.createdAt \div TicksPerDay).y))
        ELSE IF d.valid /\ CivilFromDays(d.t \div TicksPerDay).y > 2000
        THEN LocalMonthYear(d.t)
        ELSE LocalMonthYear(probe.createdAt)

\* C22: when the numeric date that layer 1 matches in dateOfPeriod has its
\* middle group outside 1..12, the key is the one layers 2 to 4 give (month
\* name in the text, then date parse, then createdAt); when the middle group
\* is in 1..12 the key is that month and the year of the date, whatever
\* layers 2 to 4 would give; with no numeric date the key is that of layers
\* 2 to 4
C22_FirstMatchingLayerWins ==
    \A k \in ResolvedKeys :
        IF NumericDates = {}
        THEN k = LaterLayersKey
        ELSE LET s == probe.dateOfPeriod
                 d == LeftmostNumericDate
                 M == DmyMonth(s, d[1], d[2], d[3])
             IN  IF M \in 1..12
                 THEN k = months[M] \o <<" ">> \o IntToStr(parseInt(DmyYear(s, d[1], d[2], d[3])))
                 ELSE k = LaterLayersKey

\* "10/15/2023 SEPT": the middle group 15 is no month, layer 2 gave
\* "Sep 2023"
C22_Witness ==
    /\ probe.dateOfPeriod = Parts[4] \o <<" ">> \o Parts[7]
    /\ NumericDates # {}
    /\ DmyMonth(probe.dateOfPeriod, LeftmostNumericDate[1], LeftmostNumericDate[2],
                LeftmostNumericDate[3]) = 15
    /\ appKey = <<"S","e","p"," ","2","0","2","3">>
    /\ rowKey = appKey

\* the abbreviation of the leftmost month name of the combined text
LeftmostMonthOfText ==
    LET ms == MonthNamesIn(CombinedText)
    IN  months[(CHOOSE o \in ms : \A o2 \in ms : o[1] <= o2[1])[2]]

\* C23: when layer 1 gives nothing and the combined text holds a month name,
\* the key is the abbreviation of that month followed, when the text holds no
\* year 2020..2039, by the calendar year of createdAt, and otherwise by the
\* first such year of the combined text, dateOfPeriod before dueDate
C23_YearOfTextOrCreatedAt ==
    \A k \in ResolvedKeys :
        ~LeftmostDmyUsable(probe.dateOfPeriod) /\ MonthNamesIn(CombinedText) # {}
        => IF YearsIn(CombinedText) = {}
           THEN k = LeftmostMonthOfText \o <<" ">>
                        \o IntToStr(CivilFromDays(probe.createdAt \div TicksPerDay).y)
           ELSE \E y \in YearsIn(CombinedText) :
                   /\ \A y2 \in YearsIn(CombinedText) : y <= y2
                   /\ k = LeftmostMonthOfText \o <<" ">> \o SubSeq(CombinedText, y, y + 3)

\* "SEPT 2019" without a due date, uploaded on 2022-12-31: 2019 is no year of
\* 2020..2039, and the key is "Sep 2022"
C23_Witness ==
    /\ probe.dateOfPeriod = Parts[7] \o <<" ">> \o Parts[9]
    /\ probe.dueDate = Undefined
    /\ YearsIn(CombinedText) = {}
    /\ CivilFromDays(probe.createdAt \div TicksPerDay).y = 2022
    /\ appKey = <<"S","e","p"," ","2","0","2","2">>
    /\ rowKey = appKey

\* the numeric dates of probe.dateOfPeriod when '.' separates as well
DottedDates == DmyDates(probe.dateOfPeriod, {"/", "-", "."})

\* C24: the leftmost numeric date of dateOfPeriod, written with '/', '-' or
\* '.', is resolved by layer 1 to its month and year when the month is in
\* 1..12
C24_DotSeparatesToo ==
    \A k \in ResolvedKeys :
        \A d \in DottedDates :
            LET s == probe.dateOfPeriod
                M == DmyMonth(s, d[1], d[2], d[3])
            IN  (\A e \in DottedDates : d[1] <= e[1]) /\ M \in 1..12
                => k = months[M] \o <<" ">> \o IntToStr(parseInt(DmyYear(s, d[1], d[2], d[3])))

(***************************************************************************)
(* Claims about the optimistic updates and their rollbacks                 *)
(***************************************************************************)
Flipped(status) == IF status = "paid" THEN "unpaid" ELSE "paid"

\* the status the records of id have in list; empty when list has none
StatusesOf(id, list) == {list[k].status : k \in {j \in 1..Len(list) : list[j].id = id}}

\* this step is the click of a toggle whose Store call c starts: the status
\* of the record in the collection and of the selected bill flips, and the
\* Store is as before
FlipsBeforeStore(c) ==
    /\ store' = store
    /\ Len(bills') = Len(bills)
    /\ \A k \in 1..Len(bills) :
          bills[k].id = c.id => bills'[k].status = Flipped(bills[k].status)
    /\ selectedBill # Null /\ selectedBill.id = c.id
       => selectedBill' # Null /\ selectedBill'.status = Flipped(selectedBill.status)

\* this step is the end of the Store call c of a toggle: when the Store has
\* updated, nothing in memory changes; when the collection or the selection
\* changes, the Store has not updated and the record has the status it had
\* in the collection when the button was clicked
StaysOrIsSetBack(c) ==
    /\ store' # store => bills' = bills /\ selectedBill' = selectedBill
    /\ bills' # bills \/ selectedBill' # selectedBill
       => /\ store' = store
          /\ StatusesOf(c.id, bills') = StatusesOf(c.id, c.bills)
          /\ selectedBill' # Null /\ selectedBill'.id = c.id
             => selectedBill'.status = c.selectedBill.status

\* C25: the click of a status toggle flips the in-memory status of the record
\* and of the selected bill before the Store is called; when the Store's
\* update fails the in-memory status is set back to what it was before the
\* click, and when it succeeds the flipped status stays
C25_ToggleIsOptimisticWithRollback ==
    [][ /\ \A c \in pending' \ pending : c.kind = "toggle" => FlipsBeforeStore(c)
        /\ \A c \in pending \ pending' : c.kind = "toggle" => StaysOrIsSetBack(c)
      ]_vars

\* the places of the records of id in list
PlacesOf(id, list) == {k \in 1..Len(list) : list[k].id = id}

\* this step is the click of a confirmed delete whose Store call c starts:
\* the record is out of the collection and the Store is as before
LeavesBeforeStore(c) ==
    /\ store' = store
    /\ PlacesOf(c.id, bills') = {}
    /\ c.prevBills = bills

\* every place the record had in the collection at the click holds, after
\* this step, the record as it was then
IsBackInPlace(c) ==
    \A k \in PlacesOf(c.id, c.prevBills) : k <= Len(bills') /\ bills'[k] = c.prevBills[k]

\* this step is the end of the Store call c of a delete: when the Store has
\* deleted, the collection is unchanged; when the Store still holds the row
\* (the call has failed) or the collection changes, the record is back
GoneOrBackInPlace(c) ==
    /\ store' # store => bills' = bills
    /\ (store' = store /\ PlacesOf(c.id, store) # {}) \/ bills' # bills
       => IsBackInPlace(c)

\* C26: a confirmed delete takes the record out of the in-memory collection
\* before the Store is called, and when the Store's delete fails the record
\* is in the collection again, at the position and with the fields it had
\* when the delete was clicked
C26_DeleteIsOptimisticWithRollback ==
    [][ /\ \A c \in pending' \ pending : c.kind = "delete" => LeavesBeforeStore(c)
        /\ \A c \in pending \ pending' : c.kind = "delete" => GoneOrBackInPlace(c)
      ]_vars

\* a delete is in flight: its record has left the collection it was in at
\* the click, the Store still holds its row, and a failure would put back a
\* collection of two records
C26_Witness ==
    \E c \in pending :
        /\ c.kind = "delete"
        /\ PlacesOf(c.id, c.prevBills) # {} /\ Len(c.prevBills) = 2
        /\ PlacesOf(c.id, bills) = {}
        /\ PlacesOf(c.id, store) # {}

\* this step is the user's confirmed delete of the record id, made on its card
DeleteClickOn(id) ==
    /\ selectedBill # Null /\ selectedBill.id = id
    /\ selectedBill' = Null
    /\ bills' = SelectSeq(bills, LAMBDA b : b.id # id)

\* C27: a record of the in-memory collection is in the collection after every
\* step but the user's delete of that record, whatever loads, uploads and
\* Store calls of toggles and deletes complete in between
C27_NoRecordIsLost ==
    [][ \A id \in RecordIds :
          PlacesOf(id, bills) # {} /\ PlacesOf(id, bills') = {} => DeleteClickOn(id)
      ]_vars

\* the records in memory: those of the collection and the selected bill
RecordsInMemory ==
    {bills[k] : k \in 1..Len(bills)} \cup (IF selectedBill = Null THEN {} ELSE {selectedBill})

\* r was a row of the table on mount: the uploads of this session are made
\* at the time now, the rows found on mount are older, and identifiers are
\* given out once
WasLoadedFromStore(r) == r.createdAt < now

\* C28: a record whose Store delete has succeeded is neither in the
\* in-memory collection nor the selected bill in any later state. Rows leave
\* the Store by a successful delete alone, so a record that was loaded from
\* the Store and whose row the Store no longer holds is such a record
C28_DeletedNeverReappears ==
    \A r \in RecordsInMemory : WasLoadedFromStore(r) => PlacesOf(r.id, store) # {}

\* no call to the Store is awaiting its answer: not the load, not a save,
\* not an update and not a delete
NoStoreCallInFlight == load.phase = "idle" /\ upload = Idle /\ pending = {}

\* C29: with the table in place and no Store call in flight, every record of
\* the in-memory collection that has a row in the Store has the status of
\* that row
C29_StatusAgreesWithStore ==
    tableExists /\ ~isDbMissing /\ NoStoreCallInFlight
    => \A k \in 1..Len(bills) : \A j \in PlacesOf(bills[k].id, store) :
          bills[k].status = store[j].status

(***************************************************************************)
(* The upload under fair scheduling                                        *)
(***************************************************************************)
\* what handleFileSelect waits for does happen: the FileReader fires onload
\* or onerror, the promise of extractBillData settles, the promise of
\* saveBill settles, and the continuation of a settled promise is run
UploadFairness ==
    /\ WF_vars(ReaderLoad \/ ReaderError)
    /\ WF_vars(ExtractFailed \/ \E data \in Extractions : Extracted(data))
    /\ WF_vars(SaveBillInserted
                 \/ \E m \in {"column due_date does not exist", "Failed to fetch"} :
                        SaveBillFailed(m))
    /\ WF_vars(SaveBillReturned)

AppFairSpec == AppSpec /\ UploadFairness

\* this step starts an upload: a handleFileSelect call enters its first phase
UploadStarts == upload # upload' /\ upload'.phase = "reading"

\* C30: whenever isProcessing is true it becomes false again, whichever way
\* the upload goes, and no step taken while isProcessing is true starts an
\* upload
C30_ProcessingEnds ==
    /\ isProcessing ~> ~isProcessing
    /\ [][isProcessing => ~UploadStarts]_vars

\* an upload is at its last await, the Store's insert, with isProcessing set
C30_Witness == isProcessing /\ upload.phase = "saving"

====
